---- MODULE Spec2Model ----
(***************************************************************************)
(* HireLens: the resume parsing and ATS scoring engine.                    *)
(*                                                                         *)
(* Strings are sequences of one-character strings so that str.lower(),     *)
(* str.strip(), str.split(), the `in` substring test and the regular       *)
(* expressions of the source are computed character by character.         *)
(* Python floats are modelled as exact non-negative rationals [n, d].      *)
(* A Python list built from a set (list(set(...))) is modelled as the set. *)
(***************************************************************************)
EXTENDS Integers, Sequences, FiniteSets, TLC

(* ------------------------------ strings -------------------------------- *)

UpperChars ==
    <<"A", "B", "C", "D", "E", "F", "G", "H", "I", "J", "K", "L", "M",
      "N", "O", "P", "Q", "R", "S", "T", "U", "V", "W", "X", "Y", "Z">>

LowerChars ==
    <<"a", "b", "c", "d", "e", "f", "g", "h", "i", "j", "k", "l", "m",
      "n", "o", "p", "q", "r", "s", "t", "u", "v", "w", "x", "y", "z">>

DigitChars ==
    <<"0", "1", "2", "3", "4", "5", "6", "7", "8", "9">>

ToLowerMap ==
    [c \in {UpperChars[i] : i \in 1..26} |->
        LowerChars[CHOOSE i \in 1..26 : UpperChars[i] = c]]

ToUpperMap ==
    [c \in {LowerChars[i] : i \in 1..26} |->
        UpperChars[CHOOSE i \in 1..26 : LowerChars[i] = c]]

DigitValue ==
    [c \in {DigitChars[i] : i \in 1..10} |->
        (CHOOSE i \in 1..10 : DigitChars[i] = c) - 1]

LowerChar(c) ==
    IF c \in DOMAIN ToLowerMap THEN ToLowerMap[c] ELSE c

UpperChar(c) ==
    IF c \in DOMAIN ToUpperMap THEN ToUpperMap[c] ELSE c

\* str.lower() and str.upper() on ASCII text
Lower(s) ==
    [i \in 1..Len(s) |-> LowerChar(s[i])]

Upper(s) ==
    [i \in 1..Len(s) |-> UpperChar(s[i])]

IsDigit(c) ==
    c \in DOMAIN DigitValue

\* \w of the regular expressions
IsWordChar(c) ==
    c \in DOMAIN ToLowerMap \/ c \in DOMAIN ToUpperMap \/ IsDigit(c) \/ c = "_"

IsSpace(c) ==
    c = " "

RECURSIVE LStrip(_)
LStrip(s) ==
    IF s # <<>> /\ IsSpace(Head(s)) THEN LStrip(Tail(s)) ELSE s

RECURSIVE RStrip(_)
RStrip(s) ==
    IF s # <<>> /\ IsSpace(s[Len(s)]) THEN RStrip(SubSeq(s, 1, Len(s) - 1)) ELSE s

\* str.strip()
Strip(s) ==
    RStrip(LStrip(s))

\* the Python test `a in b` on two strings
Contains(a, b) ==
    \E i \in 0..(Len(b) - Len(a)) : SubSeq(b, i + 1, i + Len(a)) = a

\* sep.join(parts)
RECURSIVE Join(_, _)
Join(parts, sep) ==
    IF parts = <<>> THEN <<>>
    ELSE IF Len(parts) = 1 THEN parts[1]
    ELSE parts[1] \o sep \o Join(Tail(parts), sep)

\* the maximal runs of s of word characters (word_runs) or of characters
\* other than white space, as a set
Runs(s, word_runs) ==
    LET Keep(i) == IF word_runs THEN IsWordChar(s[i]) ELSE ~IsSpace(s[i])
        Starts == {i \in 1..Len(s) : Keep(i) /\ (i = 1 \/ ~Keep(i - 1))}
        Ends == {j \in 1..Len(s) : Keep(j) /\ (j = Len(s) \/ ~Keep(j + 1))}
        EndOf(i) == CHOOSE j \in Ends : j >= i /\ \A k \in Ends : k >= i => j <= k
    IN  {SubSeq(s, i, EndOf(i)) : i \in Starts}

\* set(s.split())
SplitWords(s) ==
    Runs(s, FALSE)

\* set(re.findall(r'\b\w+\b', s))
FindWords(s) ==
    Runs(s, TRUE)

\* int() of a string of decimal digits
RECURSIVE ToInt(_)
ToInt(s) ==
    IF s = <<>> THEN 0
    ELSE 10 * ToInt(SubSeq(s, 1, Len(s) - 1)) + DigitValue[s[Len(s)]]

\* a pattern is a sequence of characters in which "#" stands for \d
MatchAt(p, s, i) ==
    /\ i + Len(p) - 1 <= Len(s)
    /\ \A k \in 1..Len(p) :
          IF p[k] = "#" THEN IsDigit(s[i + k - 1]) ELSE s[i + k - 1] = p[k]

\* re.search(p, s): the start of the leftmost match, 0 when there is none
Search(p, s) ==
    IF \E i \in 1..Len(s) : MatchAt(p, s, i)
    THEN CHOOSE i \in 1..Len(s) : MatchAt(p, s, i) /\ \A j \in 1..(i - 1) : ~MatchAt(p, s, j)
    ELSE 0

(* ----------------------------- rationals ------------------------------- *)

RECURSIVE Gcd(_, _)
Gcd(a, b) ==
    IF b = 0 THEN a ELSE Gcd(b, a % b)

\* the non-negative rational n/d in lowest terms
Q(n, d) ==
    IF n = 0 THEN [n |-> 0, d |-> 1]
    ELSE [n |-> n \div Gcd(n, d), d |-> d \div Gcd(n, d)]

QInt(k) ==
    [n |-> k, d |-> 1]

QAdd(a, b) ==
    Q(a.n * b.d + b.n * a.d, a.d * b.d)

QMul(a, b) ==
    Q(a.n * b.n, a.d * b.d)

QDiv(a, b) ==
    Q(a.n * b.d, a.d * b.n)

QLe(a, b) ==
    a.n * b.d <= b.n * a.d

QLt(a, b) ==
    a.n * b.d < b.n * a.d

QMin(a, b) ==
    IF QLe(a, b) THEN a ELSE b

(* --------------------------- texts of the inputs ----------------------- *)

s_python ==
    <<"p", "y", "t", "h", "o", "n">>
s_JavaScript ==
    <<"J", "a", "v", "a", "S", "c", "r", "i", "p", "t">>
s_Django ==
    <<"D", "j", "a", "n", "g", "o">>
s_Python ==
    <<"P", "y", "t", "h", "o", "n">>
s_Java ==
    <<"J", "a", "v", "a">>
s_Go ==
    <<"G", "o">>
t_SeniorSoftwareEngineer ==
    <<"S", "e", "n", "i", "o", "r", " ", "S", "o", "f", "t", "w", "a", "r", "e", " ", "E", "n", "g", "i", "n", "e", "e", "r">>
t_SoftwareEngineer ==
    <<"S", "o", "f", "t", "w", "a", "r", "e", " ", "E", "n", "g", "i", "n", "e", "e", "r">>
t_SalesClerk ==
    <<"S", "a", "l", "e", "s", " ", "C", "l", "e", "r", "k">>
t_DataEngineer ==
    <<"D", "a", "t", "a", " ", "E", "n", "g", "i", "n", "e", "e", "r">>
c_Acme ==
    <<"A", "c", "m", "e", " ", "I", "n", "c">>
d_UsedPython ==
    <<"U", "s", "e", "d", " ", "P", "y", "t", "h", "o", "n", " ", "d", "a", "i", "l", "y">>
d_2019 ==
    <<"2", "0", "1", "9">>
d_2020 ==
    <<"2", "0", "2", "0">>
d_2015 ==
    <<"2", "0", "1", "5">>
d_mdy2021 ==
    <<"0", "1", "/", "1", "5", "/", "2", "0", "2", "1">>
d_Present ==
    <<"P", "r", "e", "s", "e", "n", "t">>
d_junk ==
    <<"n", "/", "a">>
g_HighSchool ==
    <<"H", "i", "g", "h", " ", "S", "c", "h", "o", "o", "l", " ", "D", "i", "p", "l", "o", "m", "a">>
g_Bachelor ==
    <<"B", "a", "c", "h", "e", "l", "o", "r", " ", "o", "f", " ", "S", "c", "i", "e", "n", "c", "e">>
g_PhD ==
    <<"P", "h", "D", " ", "i", "n", " ", "P", "h", "y", "s", "i", "c", "s">>
q_Bachelor ==
    <<"B", "a", "c", "h", "e", "l", "o", "r", "'", "s", " ", "d", "e", "g", "r", "e", "e">>
q_MasterOrPhD ==
    <<"M", "a", "s", "t", "e", "r", " ", "o", "r", " ", "P", "h", "D">>
q_Certification ==
    <<"C", "e", "r", "t", "i", "f", "i", "c", "a", "t", "i", "o", "n">>

sp ==
    <<" ">>

\* Optional[...] = None; an absent list or string is modelled as the empty
\* one, which every use in the scorer treats alike (`x or []`, `if not x`)
None ==
    "none"

SeqToSet(seq) ==
    {seq[i] : i \in 1..Len(seq)}

(* ------------------- ATSScorer (ats_scoring_service.py) ---------------- *)

Q0 ==
    QInt(0)

Q100 ==
    QInt(100)

QHalf ==
    Q(1, 2)

\* the five skill buckets joined by list.extend, in the order of the code
AllSkills(resume) ==
    resume.parsed_data.skills.technical \o resume.parsed_data.skills.soft
        \o resume.parsed_data.skills.tools \o resume.parsed_data.skills.frameworks
        \o resume.parsed_data.skills.languages

\* NormSkills without the call of lower()
NormSkillsNoLower(skills) ==
    {Strip(s) : s \in SeqToSet(skills)}

\* set([skill.lower().strip() for skill in skills])
NormSkills(skills) ==
    {Strip(Lower(s)) : s \in SeqToSet(skills)}

_find_partial_skill_matches(resume_skills, job_skills) ==
    {job_skill \in job_skills :
        \E resume_skill \in resume_skills :
            /\ Contains(job_skill, resume_skill) \/ Contains(resume_skill, job_skill)
            /\ Len(job_skill) > 2
            /\ Len(resume_skill) > 2}

\* the score from the two coverages: required skills weigh 70%, preferred 30%
SkillsScore(required_score, preferred_score, total_required, total_preferred) ==
    IF total_required = 0 /\ total_preferred = 0 THEN Q100
    ELSE IF total_required > 0 /\ total_preferred > 0
         THEN QMul(QAdd(QMul(required_score, Q(7, 10)), QMul(preferred_score, Q(3, 10))), Q100)
    ELSE IF total_required > 0 THEN QMul(required_score, Q100)
    ELSE QMul(preferred_score, Q100)

\* the skills score returned as computed, without the cap
ClampScoreOmitted(score) ==
    score

\* 'score': min(score, 100). An exact match is also counted by
\* _find_partial_skill_matches, so the coverage of a fully matched list is 1.5
ClampScore(score) ==
    QMin(score, Q100)

_calculate_skills_match(resume, job) ==
    LET resume_skills == NormSkills(AllSkills(resume))
        required_skills == NormSkills(job.required_skills)
        preferred_skills == NormSkills(job.preferred_skills)
        required_matches == resume_skills \cap required_skills
        preferred_matches == resume_skills \cap preferred_skills
        required_partial == _find_partial_skill_matches(resume_skills, required_skills)
        preferred_partial == _find_partial_skill_matches(resume_skills, preferred_skills)
        total_required == Cardinality(required_skills)
        total_preferred == Cardinality(preferred_skills)
        \* (len(matches) + len(partial) * 0.5) / max(total, 1)
        Coverage(matches, partial, total) ==
            Q(2 * Cardinality(matches) + Cardinality(partial),
              2 * (IF total > 1 THEN total ELSE 1))
        required_score == Coverage(required_matches, required_partial, total_required)
        preferred_score == Coverage(preferred_matches, preferred_partial, total_preferred)
        score == SkillsScore(required_score, preferred_score, total_required, total_preferred)
        missing_required == (required_skills \ required_matches) \ required_partial
        missing_preferred == (preferred_skills \ preferred_matches) \ preferred_partial
    IN  [score |-> ClampScore(score),
         matched |-> required_matches \cup preferred_matches,
         missing |-> missing_required \cup missing_preferred,
         details |-> [required_matches |-> Cardinality(required_matches),
                      required_partial |-> Cardinality(required_partial),
                      preferred_matches |-> Cardinality(preferred_matches),
                      preferred_partial |-> Cardinality(preferred_partial),
                      total_required |-> total_required,
                      total_preferred |-> total_preferred]]

\* date_patterns, tried in this order; the year is group 1 when it has four
\* digits and group 3 otherwise
date_patterns ==
    << [p |-> <<"#", "#", "#", "#", "-", "#", "#", "-", "#", "#">>, year_at |-> 0],
       [p |-> <<"#", "#", "/", "#", "#", "/", "#", "#", "#", "#">>, year_at |-> 6],
       [p |-> <<"#", "#", "#", "#", "/", "#", "#">>, year_at |-> 0],
       [p |-> <<"#", "#", "#", "#">>, year_at |-> 0] >>

\* the year found by the first pattern that matches, 0 when none matches
\* (None and 0 are both rejected by `if not start_year`)
YearIn(date) ==
    IF \E k \in 1..Len(date_patterns) : Search(date_patterns[k].p, date) > 0
    THEN LET k == CHOOSE k \in 1..Len(date_patterns) :
                     /\ Search(date_patterns[k].p, date) > 0
                     /\ \A j \in 1..(k - 1) : Search(date_patterns[j].p, date) = 0
             at == Search(date_patterns[k].p, date) + date_patterns[k].year_at
         IN  ToInt(SubSeq(date, at, at + 3))
    ELSE 0

\* duration in years; now_year is datetime.now().year
_calculate_duration_from_dates(start_date, end_date, is_current, now_year) ==
    IF start_date = <<>> THEN QInt(1)
    ELSE LET start_year == YearIn(start_date)
             end_year ==
                 IF is_current THEN now_year
                 ELSE IF end_date # <<>>
                      THEN (IF YearIn(end_date) = 0 THEN start_year + 1 ELSE YearIn(end_date))
                 ELSE start_year + 1
         IN  IF start_year = 0 THEN QInt(1)
             ELSE IF end_year - start_year >= 1 THEN QInt(end_year - start_year)
             ELSE QHalf

_is_relevant_experience(experience, job) ==
    LET job_title_words == SplitWords(Lower(job.title))
        exp_title_words == SplitWords(Lower(experience.position))
        exp_description == Join(experience.description, sp)
        common_words == job_title_words \cap exp_title_words
    IN  \/ Cardinality(common_words) > 0
        \/ \E skill \in SeqToSet(job.required_skills \o job.preferred_skills) :
               Contains(Lower(skill), Lower(exp_description))

\* experience_level_mapping with one year asked of the entry level
experience_level_mapping_entry_1 ==
    [entry |-> 1, junior |-> 1, middle |-> 3, senior |-> 5, lead |-> 7, executive |-> 10]

experience_level_mapping ==
    [entry |-> 0, junior |-> 1, middle |-> 3, senior |-> 5, lead |-> 7, executive |-> 10]

RECURSIVE SumDurations(_, _, _, _)
SumDurations(experience, job, now_year, relevant_only) ==
    IF experience = <<>> THEN Q0
    ELSE LET exp == Head(experience)
             duration == _calculate_duration_from_dates(exp.start_date, exp.end_date,
                                                        exp.is_current, now_year)
             rest == SumDurations(Tail(experience), job, now_year, relevant_only)
         IN  IF relevant_only /\ ~_is_relevant_experience(exp, job) THEN rest
             ELSE QAdd(duration, rest)

_calculate_experience_match(resume, job, now_year) ==
    LET total_experience == SumDurations(resume.parsed_data.experience, job, now_year, FALSE)
        relevant_experience == SumDurations(resume.parsed_data.experience, job, now_year, TRUE)
        required_years ==
            IF job.experience_level # None
            THEN (IF job.experience_level \in DOMAIN experience_level_mapping
                  THEN experience_level_mapping[job.experience_level] ELSE 0)
            ELSE 0
        base_score ==
            QMul(QMin(QDiv(relevant_experience, QInt(required_years)), QInt(1)), QInt(80))
        bonus_score ==
            QMul(QMin(QDiv(total_experience, QInt(required_years)), QHalf), QInt(20))
        score ==
            IF required_years = 0 THEN Q100
            ELSE QMul(QAdd(base_score, bonus_score), Q100)
    IN  [score |-> QMin(score, Q100),
         details |-> [total_experience |-> total_experience,
                      relevant_experience |-> relevant_experience,
                      required_years |-> required_years,
                      experience_positions |-> Len(resume.parsed_data.experience)]]

\* education_levels, in the insertion order that the loops follow
education_levels ==
    << [level |-> <<"h", "i", "g", "h", " ", "s", "c", "h", "o", "o", "l">>, value |-> 1],
       [level |-> <<"a", "s", "s", "o", "c", "i", "a", "t", "e">>, value |-> 2],
       [level |-> <<"b", "a", "c", "h", "e", "l", "o", "r">>, value |-> 3],
       [level |-> <<"m", "a", "s", "t", "e", "r">>, value |-> 4],
       [level |-> <<"p", "h", "d">>, value |-> 5],
       [level |-> <<"d", "o", "c", "t", "o", "r", "a", "t", "e">>, value |-> 5] >>

\* the value of the first level found in the text (the inner loop breaks
\* at the first hit), 0 when no level occurs in it
LevelIn(text) ==
    IF \E k \in 1..Len(education_levels) : Contains(education_levels[k].level, text)
    THEN education_levels[CHOOSE k \in 1..Len(education_levels) :
             /\ Contains(education_levels[k].level, text)
             /\ \A j \in 1..(k - 1) : ~Contains(education_levels[j].level, text)].value
    ELSE 0

MaxOf(S) ==
    IF S = {} THEN 0 ELSE CHOOSE m \in S : \A x \in S : x <= m

RequiredLevel(education_reqs) ==
    MaxOf({LevelIn(Lower(education_reqs[i])) : i \in 1..Len(education_reqs)})

ResumeLevel(education) ==
    MaxOf({LevelIn(Lower(education[i].degree)) : i \in 1..Len(education)})

\* EducationScore with full marks only above the required level
EducationScoreStrict(resume_level, required_level) ==
    IF required_level = 0 THEN Q100
    ELSE IF resume_level > required_level THEN Q100
    ELSE IF resume_level > 0 THEN QMul(Q(resume_level, required_level), QInt(70))
    ELSE QInt(20)

\* the score of a resume level against a required level
EducationScore(resume_level, required_level) ==
    IF required_level = 0 THEN Q100
    ELSE IF resume_level >= required_level THEN Q100
    ELSE IF resume_level > 0 THEN QMul(Q(resume_level, required_level), QInt(70))
    ELSE QInt(20)

_calculate_education_match(resume, job) ==
    LET education_reqs == job.education_requirements
        required_level == RequiredLevel(education_reqs)
        resume_level == ResumeLevel(resume.parsed_data.education)
    IN  IF education_reqs = <<>>
        THEN [score |-> Q100, details |-> [education_required |-> FALSE]]
        ELSE [score |-> QMin(EducationScore(resume_level, required_level), Q100),
              details |-> [required_education |-> Join(education_reqs, <<",", " ">>),
                           resume_education_level |-> resume_level,
                           required_education_level |-> required_level,
                           education_count |-> Len(resume.parsed_data.education)]]

RECURSIVE ExperienceText(_)
ExperienceText(experience) ==
    IF experience = <<>> THEN <<>>
    ELSE LET exp == Head(experience)
         IN  sp \o exp.position \o sp \o exp.company \o sp \o Join(exp.description, sp)
                \o ExperienceText(Tail(experience))

\* the resume document of the keyword match; the languages bucket is not
\* part of it
ResumeText(resume) ==
    Join(resume.parsed_data.skills.technical \o resume.parsed_data.skills.soft
            \o resume.parsed_data.skills.tools \o resume.parsed_data.skills.frameworks, sp)
        \o ExperienceText(resume.parsed_data.experience)

JobText(job) ==
    job.title \o sp \o job.description \o sp
        \o Join(job.required_skills \o job.preferred_skills, sp)

stop_words ==
    { <<"t", "h", "e">>, <<"a", "n", "d">>, <<"o", "r">>, <<"b", "u", "t">>,
      <<"i", "n">>, <<"o", "n">>, <<"a", "t">>, <<"t", "o">>, <<"f", "o", "r">>,
      <<"o", "f">>, <<"w", "i", "t", "h">>, <<"b", "y">>, <<"i", "s">>,
      <<"a", "r", "e">>, <<"w", "a", "s">>, <<"w", "e", "r", "e">>, <<"b", "e">>,
      <<"b", "e", "e", "n">>, <<"b", "e", "i", "n", "g">>, <<"h", "a", "v", "e">>,
      <<"h", "a", "s">>, <<"h", "a", "d">>, <<"d", "o">>, <<"d", "o", "e", "s">>,
      <<"d", "i", "d">>, <<"w", "i", "l", "l">>, <<"w", "o", "u", "l", "d">>,
      <<"c", "o", "u", "l", "d">>, <<"s", "h", "o", "u", "l", "d">> }

\* TfidfVectorizer(stop_words='english'): the words of scikit-learn's English
\* stop list that occur in the texts of the model
EnglishStopWords ==
    stop_words \cup { <<"g", "o">>, <<"i", "n", "c">> }

\* the vocabulary that fit_transform builds from the two documents: the
\* tokens of two or more characters that are not stop words
Vocabulary(text) ==
    {w \in FindWords(Lower(text)) : Len(w) >= 2 /\ w \notin EnglishStopWords}

\* cosine_similarity of the two tf-idf vectors: 0 exactly when the documents
\* share no term, 1 when they have the same terms, and in the model one half
\* for every other pair
Similarity(job_terms, resume_terms) ==
    IF job_terms \cap resume_terms = {} THEN Q0
    ELSE IF job_terms = resume_terms THEN QInt(1)
    ELSE QHalf

\* what the try block can meet: fit_transform raises ("empty vocabulary" when
\* neither document has a term, any other failure otherwise), or the cosine
\* similarity is computed
TfidfOutcomes(job_text, resume_text) ==
    LET job_terms == Vocabulary(job_text)
        resume_terms == Vocabulary(resume_text)
    IN  IF job_terms \cup resume_terms = {} THEN {[raises |-> TRUE, similarity |-> Q0]}
        ELSE {[raises |-> TRUE, similarity |-> Q0],
              [raises |-> FALSE, similarity |-> Similarity(job_terms, resume_terms)]}

\* lst[:n] of a list made from a set: n of its elements
FirstN(S, n) ==
    IF Cardinality(S) <= n THEN S
    ELSE CHOOSE T \in SUBSET S : Cardinality(T) = n

\* KeywordsFallback with the score left at its initial 0.0
KeywordsFallbackZero ==
    [score |-> Q0, matches |-> {},
     details |-> [error |-> "TF-IDF calculation failed, used fallback"]]

\* the value returned by the except branch
KeywordsFallback ==
    [score |-> QInt(50), matches |-> {},
     details |-> [error |-> "TF-IDF calculation failed, used fallback"]]

_calculate_keywords_match(resume, job, tfidf) ==
    LET resume_text == ResumeText(resume)
        job_text == JobText(job)
        job_words == FindWords(Lower(job_text))
        resume_words == FindWords(Lower(resume_text))
        common_words == job_words \cap resume_words
        meaningful_matches == {word \in common_words : word \notin stop_words /\ Len(word) > 2}
    IN  IF tfidf.raises
        THEN KeywordsFallback
        ELSE [score |-> QMin(QMul(tfidf.similarity, Q100), Q100),
              matches |-> FirstN(meaningful_matches, 20),
              details |-> [similarity_score |-> tfidf.similarity,
                           total_keyword_matches |-> Cardinality(meaningful_matches),
                           job_word_count |-> Cardinality(job_words),
                           resume_word_count |-> Cardinality(resume_words)]]

\* dict.get(key, default)
DictGet(dict, key, default) ==
    IF key \in DOMAIN dict THEN dict[key] ELSE default

\* the recommendation texts, the skills one carrying the skills it names
SkillsRecommendation(missing_skills) ==
    [about |-> "skills", names |-> FirstN(missing_skills, 5)]

ExperienceRecommendation ==
    [about |-> "experience", names |-> {}]

KeywordsRecommendation ==
    [about |-> "keywords", names |-> {}]

EducationRecommendation ==
    [about |-> "education", names |-> {}]

_generate_recommendations(resume, job, breakdown) ==
    LET missing_skills == DictGet(breakdown.skills.details, "missing", {})
    IN  (IF QLt(breakdown.skills.score, QInt(70)) /\ missing_skills # {}
         THEN <<SkillsRecommendation(missing_skills)>> ELSE <<>>)
        \o (IF QLt(breakdown.experience.score, QInt(60))
            THEN <<ExperienceRecommendation>> ELSE <<>>)
        \o (IF QLt(breakdown.keywords.score, QInt(50))
            THEN <<KeywordsRecommendation>> ELSE <<>>)
        \o (IF QLt(breakdown.education.score, QInt(80))
            THEN <<EducationRecommendation>> ELSE <<>>)

\* Weighted without the division by 100
WeightedNoDivide(score, weight) ==
    QMul(score, weight)

\* score * weight / 100, the weight being a percentage
Weighted(score, weight) ==
    QDiv(QMul(score, weight), Q100)

Component(sub_result, weight) ==
    [score |-> sub_result.score,
     weight |-> weight,
     weighted_score |-> Weighted(sub_result.score, weight),
     details |-> sub_result.details]

\* the scores dict built from the four sub-results (lines 84-133)
ScoresOf(resume, job, skills_result, experience_result, education_result, keywords_result) ==
    LET weights == [skills_weight |-> QMul(job.weight_skills, Q100),
                    experience_weight |-> QMul(job.weight_experience, Q100),
                    education_weight |-> QMul(job.weight_education, Q100),
                    keywords_weight |-> QMul(job.weight_keywords, Q100)]
        breakdown == [skills |-> Component(skills_result, weights.skills_weight),
                      experience |-> Component(experience_result, weights.experience_weight),
                      education |-> Component(education_result, weights.education_weight),
                      keywords |-> Component(keywords_result, weights.keywords_weight)]
    IN  [skills_score |-> skills_result.score,
         experience_score |-> experience_result.score,
         education_score |-> education_result.score,
         keywords_score |-> keywords_result.score,
         overall_score |->
             QAdd(QAdd(QAdd(Weighted(skills_result.score, weights.skills_weight),
                            Weighted(experience_result.score, weights.experience_weight)),
                       Weighted(education_result.score, weights.education_weight)),
                  Weighted(keywords_result.score, weights.keywords_weight)),
         breakdown |-> breakdown,
         matched_skills |-> skills_result.matched,
         missing_skills |-> skills_result.missing,
         keyword_matches |-> keywords_result.matches,
         recommendations |-> _generate_recommendations(resume, job, breakdown)]

\* each sub-scorer is called once and its result held in a local
calculate_ats_score(resume, job, now_year, tfidf) ==
    CHOOSE result \in
        { ScoresOf(resume, job, skills_result, experience_result, education_result, keywords_result) :
            skills_result \in {_calculate_skills_match(resume, job)},
            experience_result \in {_calculate_experience_match(resume, job, now_year)},
            education_result \in {_calculate_education_match(resume, job)},
            keywords_result \in {_calculate_keywords_match(resume, job, tfidf)} } : TRUE

(* ------------- ResumeParserService (resume_parser_service.py) ---------- *)

d_Jun15_2019 ==
    <<"J", "u", "n", " ", "1", "5", ",", " ", "2", "0", "1", "9">>

d_mdy_10AM_UTC ==
    <<"1", "/", "5", "/", "2", "0", "1", "9", " ", "1", "0", "A", "M", " ", "U", "T", "C">>

d_Jun2019 ==
    <<"J", "u", "n", " ", "2", "0", "1", "9">>

m_present ==
    <<"p", "r", "e", "s", "e", "n", "t">>

m_current ==
    <<"c", "u", "r", "r", "e", "n", "t">>

month_names ==
    << [abbr |-> <<"j", "a", "n">>, num |-> 1],
       [abbr |-> <<"f", "e", "b">>, num |-> 2],
       [abbr |-> <<"m", "a", "r">>, num |-> 3],
       [abbr |-> <<"a", "p", "r">>, num |-> 4],
       [abbr |-> <<"m", "a", "y">>, num |-> 5],
       [abbr |-> <<"j", "u", "n">>, num |-> 6],
       [abbr |-> <<"j", "u", "l">>, num |-> 7],
       [abbr |-> <<"a", "u", "g">>, num |-> 8],
       [abbr |-> <<"s", "e", "p">>, num |-> 9],
       [abbr |-> <<"o", "c", "t">>, num |-> 10],
       [abbr |-> <<"n", "o", "v">>, num |-> 11],
       [abbr |-> <<"d", "e", "c">>, num |-> 12] >>

\* a datetime: the calendar date and tick, the position within the day
\* (0 is midnight); aware tells an offset-aware datetime (one with a tzinfo)
\* from an offset-naive one
Datetime(year, month, day, tick) ==
    [year |-> year, month |-> month, day |-> day, tick |-> tick, aware |-> FALSE]

\* the datetime with tzinfo=tzutc() that dateutil builds when the text names
\* a time of day and the zone UTC
AwareDatetime(year, month, day, hour) ==
    [year |-> year, month |-> month, day |-> day, tick |-> hour, aware |-> TRUE]

\* datetime.min
DatetimeMin ==
    Datetime(1, 1, 1, 0)

\* the order of datetimes, as the sort compares its keys
DatetimeOrd(dt) ==
    ((dt.year * 100 + dt.month) * 100 + dt.day) * 100 + dt.tick

IsLeap(year) ==
    (year % 4 = 0 /\ year % 100 # 0) \/ year % 400 = 0

DaysInMonth(year, month) ==
    IF month = 2 THEN (IF IsLeap(year) THEN 29 ELSE 28)
    ELSE IF month \in {4, 6, 9, 11} THEN 30
    ELSE 31

AllIn(s, from, to, Class(_)) ==
    \A k \in from..to : Class(s[k])

IsLetter(c) ==
    c \in DOMAIN ToLowerMap \/ c \in DOMAIN ToUpperMap

\* the position after the longest run of Class characters that starts at from
RECURSIVE RunEnd(_, _, _)
RunEnd(s, from, letters) ==
    IF from <= Len(s) /\ (IF letters THEN IsLetter(s[from]) ELSE IsSpace(s[from]))
    THEN RunEnd(s, from + 1, letters)
    ELSE from

\* the positions after one or more white space characters that start at from
SpaceEnds(s, from) ==
    (from + 1)..RunEnd(s, from, FALSE)

\* the positions after zero to two digits that start at from
DigitEnds(s, from) ==
    {c \in from..(from + 2) : c <= Len(s) + 1 /\ AllIn(s, from, c - 1, IsDigit)}

\* the positions after an optional comma at from
CommaEnds(s, from) ==
    {from} \cup (IF from <= Len(s) /\ s[from] = "," THEN {from + 1} ELSE {})

\* the matches of rf'{abbr}[a-z]*\s+(\d{1,2})?,?\s+(\d{4})' with re.IGNORECASE
\* in s: i is the start, a, b, c, d, e the positions after the letters, the
\* first white space, the day, the comma and the second white space
MonthMatches(s, abbr) ==
    UNION { UNION { UNION { UNION {
        { [i |-> i, a |-> RunEnd(s, i + 3, TRUE), b |-> b, c |-> c, d |-> d, e |-> e] :
            e \in {x \in SpaceEnds(s, d) : x + 3 <= Len(s) /\ AllIn(s, x, x + 3, IsDigit)} } :
          d \in CommaEnds(s, c) } :
          c \in DigitEnds(s, b) } :
          b \in SpaceEnds(s, RunEnd(s, i + 3, TRUE)) } :
          i \in {x \in 1..(Len(s) - 2) : Lower(SubSeq(s, x, x + 2)) = abbr} }

\* the match that re.findall reports first: leftmost, each quantifier greedy
MatchRank(m, n) ==
    ((((m.i * n + (n - m.a)) * n + (n - m.b)) * n + (n - m.c)) * n + (n - m.d)) * n + (n - m.e)

FirstMonthMatch(s, abbr) ==
    CHOOSE m \in MonthMatches(s, abbr) :
        \A o \in MonthMatches(s, abbr) : MatchRank(m, Len(s) + 2) <= MatchRank(o, Len(s) + 2)

\* datetime(year, month, day), which raises ValueError on an impossible date;
\* the bare except turns that into datetime.min
DatetimeOrMin(year, month, day) ==
    IF year >= 1 /\ day >= 1 /\ day <= DaysInMonth(year, month)
    THEN Datetime(year, month, day, 0)
    ELSE DatetimeMin

\* M/D/YYYY HHAM UTC, a date with a time of day and a zone name
p_mdy_hour_utc ==
    <<"#", "/", "#", "/", "#", "#", "#", "#", " ", "#", "#", "A", "M", " ", "U", "T", "C">>

\* dateutil's parser.parse(date_str), on the formats of the model's texts: a
\* field that the text lacks is taken from the default, today at midnight,
\* the day brought into the month; a text without a date raises, and the
\* bare except returns datetime.min
DateutilParse(date_str, today) ==
    LET Clamp(year, month) ==
            Datetime(year, month,
                     IF today.day > DaysInMonth(year, month)
                     THEN DaysInMonth(year, month) ELSE today.day, 0)
        MonthsNamed == {k \in 1..12 : Contains(month_names[k].abbr, Lower(date_str))}
    IN  IF Len(date_str) = 17 /\ MatchAt(p_mdy_hour_utc, date_str, 1)
        THEN LET month == ToInt(SubSeq(date_str, 1, 1))
                 day == ToInt(SubSeq(date_str, 3, 3))
                 year == ToInt(SubSeq(date_str, 5, 8))
                 hour == ToInt(SubSeq(date_str, 10, 11))
             IN  IF year >= 1 /\ month >= 1 /\ day >= 1 /\ hour \in 1..12
                 THEN AwareDatetime(year, month, day, hour % 12)
                 ELSE DatetimeMin
        ELSE IF Len(date_str) = 4 /\ MatchAt(<<"#", "#", "#", "#">>, date_str, 1)
        THEN (IF ToInt(date_str) >= 1 THEN Clamp(ToInt(date_str), today.month)
              ELSE DatetimeMin)
        ELSE IF Len(date_str) = 8 /\ MonthsNamed # {}
                /\ MatchAt(<<" ", "#", "#", "#", "#">>, date_str, 4)
                /\ ToInt(SubSeq(date_str, 5, 8)) >= 1
        THEN Clamp(ToInt(SubSeq(date_str, 5, 8)), CHOOSE k \in MonthsNamed : TRUE)
        ELSE DatetimeMin

\* clock_read is the value that datetime.now() returns to this call
_parse_date_for_sorting(date_str, clock_read) ==
    IF date_str = <<>> THEN DatetimeMin
    ELSE IF Contains(m_present, Lower(date_str)) \/ Contains(m_current, Lower(date_str))
    THEN clock_read
    ELSE LET Hits == {k \in 1..12 :
                         /\ Contains(month_names[k].abbr, Lower(date_str))
                         /\ MonthMatches(date_str, month_names[k].abbr) # {}}
         IN  IF Hits # {}
             THEN LET k == CHOOSE k \in Hits : \A j \in Hits : k <= j
                      m == FirstMonthMatch(date_str, month_names[k].abbr)
                      year == ToInt(SubSeq(date_str, m.e, m.e + 3))
                  IN  IF m.c > m.b
                      THEN DatetimeOrMin(year, k, ToInt(SubSeq(date_str, m.b, m.c - 1)))
                      ELSE DatetimeOrMin(year, k, 1)
             ELSE DateutilParse(date_str, clock_read)

\* the outcome of a call: the value returned, or the exception raised
Return(value) ==
    [raised |-> FALSE, value |-> value]

Raise ==
    [raised |-> TRUE, value |-> <<>>]

\* comparing an offset-naive datetime with an offset-aware one raises
\* TypeError; a sort cannot order such keys without comparing two of them
SortRaises(keys) ==
    \E i, j \in 1..Len(keys) : keys[i].aware # keys[j].aware

\* the list left as it was
SortOmitted(list, keys) ==
    list

\* list.sort(key=..., reverse=True): the keys are computed once, in list
\* order, and elements with equal keys keep their order
SortDescending(list, keys) ==
    LET n == Len(list)
        Before(i, j) ==
            \/ DatetimeOrd(keys[i]) > DatetimeOrd(keys[j])
            \/ DatetimeOrd(keys[i]) = DatetimeOrd(keys[j]) /\ i < j
        Place(i) == 1 + Cardinality({j \in 1..n : Before(j, i)})
    IN  [p \in 1..n |-> list[CHOOSE i \in 1..n : Place(i) = p]]

\* what the k-th call of datetime.now() of one parse returns: the date of the
\* wall clock, and a time of day that moves between the calls when ticking
ClockRead(clock, k, ticking) ==
    Datetime(clock.year, clock.month, clock.day, IF ticking THEN k ELSE 1)

\* the entries that _parse_experience_entry builds from the blocks of the
\* section, sorted by start date
\* nothing in the function catches what the sort raises
_extract_experience(blocks, clock, ticking) ==
    LET keys == [i \in 1..Len(blocks) |->
                    _parse_date_for_sorting(blocks[i].start_date,
                                            ClockRead(clock, i, ticking))]
    IN  IF SortRaises(keys) THEN Raise ELSE Return(SortDescending(blocks, keys))

_extract_education(blocks, clock, ticking) ==
    LET keys == [i \in 1..Len(blocks) |->
                    _parse_date_for_sorting(blocks[i].graduation_date,
                                            ClockRead(clock, Len(blocks) + i, ticking))]
    IN  IF SortRaises(keys) THEN Raise ELSE Return(SortDescending(blocks, keys))

\* the ParsedData when parse_resume returns
ParsedData(experience, education) ==
    [raised |-> FALSE, experience |-> experience, education |-> education]

\* parse_resume logs the exception of an extractor and raises it again
ParseRaised ==
    [raised |-> TRUE, experience |-> <<>>, education |-> <<>>]

\* the outcome of parse_resume; raw_text is the document as the blocks that
\* the section splitters and entry parsers make of it
parse_resume(raw_text, clock, ticking) ==
    LET experience == _extract_experience(raw_text.experience, clock, ticking)
        education == _extract_education(raw_text.education, clock, ticking)
    IN  IF experience.raised \/ education.raised THEN ParseRaised
        ELSE ParsedData(experience.value, education.value)

(* ------------------ JobDescription (models/job.py) --------------------- *)

\* Field(ge=0, le=1) on the four weights, and validate_weights_sum:
\* abs(total - 1.0) > 0.01 is rejected
validate_weights_sum(job) ==
    LET weights == <<job.weight_skills, job.weight_experience,
                     job.weight_education, job.weight_keywords>>
        total == QAdd(QAdd(QAdd(weights[1], weights[2]), weights[3]), weights[4])
    IN  /\ \A i \in 1..4 : QLe(Q0, weights[i]) /\ QLe(weights[i], QInt(1))
        /\ QLe(total, Q(101, 100))
        /\ QLe(Q(99, 100), total)

(* ------------------------------ inputs --------------------------------- *)

MaxResumeItems ==
    2

MaxJobItems ==
    2

\* the sublist of pool whose elements are in S
Sublist(pool, S) ==
    SelectSeq(pool, LAMBDA x : x \in S)

ResumeSkillPool ==
    <<s_Django, s_JavaScript, s_python>>

FrameworkSkills ==
    {s_Django}

LanguageSkills ==
    {s_JavaScript, s_python}

MkSkills(S) ==
    [technical |-> <<>>, soft |-> <<>>, tools |-> <<>>,
     frameworks |-> Sublist(ResumeSkillPool, S \cap FrameworkSkills),
     languages |-> Sublist(ResumeSkillPool, S \cap LanguageSkills)]

MkExperience(position, start_date, end_date, is_current, description) ==
    [company |-> c_Acme, position |-> position, start_date |-> start_date,
     end_date |-> end_date, is_current |-> is_current, description |-> description]

ExperiencePool ==
    { MkExperience(t_SoftwareEngineer, d_2019, d_2020, FALSE, <<>>),
      MkExperience(t_SalesClerk, d_2015, d_2020, FALSE, <<d_UsedPython>>),
      MkExperience(t_DataEngineer, d_mdy2021, d_Present, TRUE, <<>>) }

DegreePool ==
    {g_HighSchool, g_Bachelor, g_PhD}

MkEducation(degree) ==
    [institution |-> c_Acme, degree |-> degree, field_of_study |-> <<>>]

SeqsUpTo(S, n) ==
    UNION {[1..k -> S] : k \in 0..n}

MkResume(skills, experience, education) ==
    [parsed_data |-> [skills |-> skills, experience |-> experience, education |-> education]]

Resumes ==
    { MkResume(MkSkills(S), X, D) :
        <<S, X, D>> \in
            { t \in (SUBSET SeqToSet(ResumeSkillPool))
                      \X SeqsUpTo(ExperiencePool, MaxResumeItems)
                      \X SeqsUpTo({MkEducation(g) : g \in DegreePool}, 1) :
                Cardinality(t[1]) + Len(t[2]) + Len(t[3]) <= MaxResumeItems } }

JobSkillPool ==
    <<s_Python, s_Java, s_Go>>

JobTitles ==
    {t_SeniorSoftwareEngineer}

ExperienceLevels ==
    {None, "entry", "senior"}

EducationRequirements ==
    {<<>>, <<q_Bachelor>>, <<q_MasterOrPhD>>, <<q_Certification>>}

\* weight vectors in thousandths: the defaults, one whose sum 1.005 is within
\* the tolerance, and one that validation rejects
WeightVectors ==
    { <<400, 300, 200, 100>>, <<505, 300, 200, 0>>, <<500, 500, 500, 500>> }

MkJob(title, required, preferred, level, education_reqs, w) ==
    [title |-> title, description |-> <<>>,
     required_skills |-> Sublist(JobSkillPool, required),
     preferred_skills |-> Sublist(JobSkillPool, preferred),
     experience_level |-> level,
     education_requirements |-> education_reqs,
     weight_skills |-> Q(w[1], 1000), weight_experience |-> Q(w[2], 1000),
     weight_education |-> Q(w[3], 1000), weight_keywords |-> Q(w[4], 1000)]

JobCandidates ==
    { MkJob(t[1], t[2], t[3], t[4], t[5], t[6]) :
        t \in { u \in JobTitles \X (SUBSET SeqToSet(JobSkillPool))
                        \X (SUBSET SeqToSet(JobSkillPool)) \X ExperienceLevels
                        \X EducationRequirements \X WeightVectors :
                  Cardinality(u[2]) + Cardinality(u[3]) + Len(u[5])
                      + (IF u[4] = None THEN 0 ELSE 1) <= MaxJobItems } }

MaxEntries ==
    2

\* start dates as _parse_experience_entry leaves them; d_mdy_10AM_UTC is the
\* third part of a first line "Software Engineer | Acme | 1/5/2019 10AM UTC"
ExperienceBlocks ==
    { MkExperience(position, start_date, <<>>, FALSE, <<>>) :
        position \in {t_SoftwareEngineer, t_DataEngineer},
        start_date \in {d_2019, d_Jun15_2019, d_Present, <<>>} }
        \cup {MkExperience(t_SoftwareEngineer, d_mdy_10AM_UTC, <<>>, FALSE, <<>>)}

EducationBlocks ==
    { [institution |-> c_Acme, degree |-> g_Bachelor, field_of_study |-> <<>>,
       graduation_date |-> date] : date \in {d_Jun2019, d_junk} }

Documents ==
    [experience : SeqsUpTo(ExperienceBlocks, MaxEntries),
     education : SeqsUpTo(EducationBlocks, 1)]

\* the dates at which the wall clock is read in the model
ClockTimes ==
    { [year |-> 2024, month |-> 3, day |-> 15],
      [year |-> 2024, month |-> 11, day |-> 6],
      [year |-> 2025, month |-> 1, day |-> 31] }

(* ------------- _parse_experience_entry: the dates of an entry ---------- *)
(* A regular expression is a sequence of items: Rep(set, min, max) is a    *)
(* greedy repetition of a character class and Alt(options) a choice among  *)
(* sub-patterns, tried in order, as the backtracking matcher of re does.   *)

Rep(set, min, max) ==
    [kind |-> "rep", set |-> set, min |-> min, max |-> max, options |-> <<>>]

Alt(options) ==
    [kind |-> "alt", set |-> {}, min |-> 0, max |-> 0, options |-> options]

\* a literal word under re.IGNORECASE
Lit(word) ==
    [k \in 1..Len(word) |-> Rep({LowerChar(word[k]), UpperChar(word[k])}, 1, 1)]

\* a literal word matched case-sensitively
LitExact(word) ==
    [k \in 1..Len(word) |-> Rep({word[k]}, 1, 1)]

\* the bound that stands for "no upper limit" of * and +
Unbounded ==
    64

\* the only element of a set of one element
TheOne(S) ==
    CHOOSE x \in S : TRUE

RECURSIVE Concat(_)
Concat(seqs) ==
    IF seqs = <<>> THEN <<>>
    ELSE TheOne({Head(seqs) \o Concat(rest) : rest \in {Tail(seqs)}})

\* the length of the longest run of characters of set at s[i], max at most
LongestRun(set, max, s, i) ==
    CHOOSE k \in 0..(Len(s) - i + 1) :
        /\ k <= max
        /\ \A m \in 0..(k - 1) : s[i + m] \in set
        /\ \/ k = max
           \/ k = Len(s) - i + 1
           \/ s[i + k] \notin set

\* for every position i of s, the positions just after the matches of the
\* items k.. of pattern that start at i, in the order in which backtracking
\* finds them; the first is the match re reports
RepEnds(item, s, next) ==
    <<>> \o [i \in 1..(Len(s) + 1) |->
                TheOne({Concat(<<>> \o [n \in 1..(longest - item.min + 1) |->
                                           next[i + longest - n + 1]])
                           : longest \in {LongestRun(item.set, item.max, s, i)}})]

AltEnds(tables, s, next) ==
    <<>> \o [i \in 1..(Len(s) + 1) |->
                Concat(<<>> \o [o \in 1..Len(tables) |->
                                   Concat(<<>> \o [e \in 1..Len(tables[o][i]) |->
                                                      next[tables[o][i][e]]])])]

RECURSIVE EndsFrom(_, _, _)
EndsFrom(pattern, s, k) ==
    IF k > Len(pattern) THEN <<>> \o [i \in 1..(Len(s) + 1) |-> <<i>>]
    ELSE TheOne({IF item.kind = "rep" THEN RepEnds(item, s, next)
                 ELSE AltEnds(tables, s, next)
                 : <<item, next, tables>> \in
                     {<<item, EndsFrom(pattern, s, k + 1),
                        <<>> \o [o \in 1..Len(item.options) |->
                                    TheOne({EndsFrom(option, s, 1) :
                                               option \in {item.options[o]}})]>>
                        : item \in {pattern[k]}}})

\* for every position i of s, the position just after the match of pattern
\* that re finds at i, or 0 when there is none
MatchEnds(pattern, s) ==
    TheOne({<<>> \o [i \in 1..(Len(s) + 1) |->
                        IF ends[i] # <<>> THEN ends[i][1] ELSE 0]
               : ends \in {TheOne({EndsFrom(p, s, 1) : p \in {pattern}})}})

\* re.search(pattern, s) finds a match
Matches(pattern, s) ==
    \E end \in {MatchEnds(pattern, s)} : \E i \in 1..(Len(s) + 1) : end[i] # 0

\* the starts of the matches that a scan from the left reports: a match is
\* reported unless it starts inside a reported match (the patterns of the
\* model match no empty text)
ReportedMatches(end) ==
    LET found == {i \in 1..Len(end) : end[i] > i}
    IN  CHOOSE reported \in SUBSET found :
            \A p \in found :
                p \in reported <=> \A q \in reported : q < p => end[q] <= p

\* the elements of a set of numbers in increasing order
Ascending(S) ==
    [k \in 1..Cardinality(S) |->
        CHOOSE p \in S : Cardinality({q \in S : q < p}) = k - 1]

\* re.findall(pattern, s) for a pattern without capturing groups
FindAll(pattern, s) ==
    TheOne({<<>> \o [k \in 1..Len(starts) |-> SubSeq(s, starts[k], end[starts[k]] - 1)]
               : <<end, starts>> \in
                   {<<end, <<>> \o Ascending(ReportedMatches(end))>>
                       : end \in {MatchEnds(pattern, s)}}})

\* re.split(pattern, s)
Split(pattern, s) ==
    TheOne({<<>> \o [k \in 1..(Len(starts) + 1) |->
                        SubSeq(s,
                               IF k = 1 THEN 1 ELSE end[starts[k - 1]],
                               IF k > Len(starts) THEN Len(s) ELSE starts[k] - 1)]
               : <<end, starts>> \in
                   {<<end, <<>> \o Ascending(ReportedMatches(end))>>
                       : end \in {MatchEnds(pattern, s)}}})

Digits ==
    {DigitChars[i] : i \in 1..10}

Letters ==
    {LowerChars[i] : i \in 1..26} \cup {UpperChars[i] : i \in 1..26}

\* \s on text without tabs or line breaks
Spaces ==
    {" "}

\* [-–]; the en dash does not occur in the texts of the model
Dashes ==
    {"-"}

\* (?:jan|feb|...|dec)
MonthAbbr ==
    Alt([k \in 1..12 |-> Lit(month_names[k].abbr)])

\* \d{1,2}/\d{2,4}
MonthSlashYear ==
    <<Rep(Digits, 1, 2), Rep({"/"}, 1, 1), Rep(Digits, 2, 4)>>

\* \s*[-–]?\s*
RangeDash ==
    <<Rep(Spaces, 0, Unbounded), Rep(Dashes, 0, 1), Rep(Spaces, 0, Unbounded)>>

\* date_patterns of _extract_dates_from_line, matched with re.IGNORECASE
line_date_patterns ==
    << MonthSlashYear \o RangeDash
           \o <<Alt(<<MonthSlashYear, Lit(m_present), Lit(m_current)>>)>>,
       <<Rep(Digits, 4, 4)>> \o RangeDash
           \o <<Alt(<< <<Rep(Digits, 4, 4)>>, Lit(m_present), Lit(m_current) >>)>>,
       <<MonthAbbr, Rep(Letters, 0, Unbounded), Rep(Spaces, 1, Unbounded),
         Rep(Digits, 4, 4)>>,
       <<MonthAbbr, Rep(Letters, 0, Unbounded), Rep(Spaces, 1, Unbounded),
         Rep(Digits, 1, 2), Rep({","}, 0, 1), Rep(Spaces, 1, Unbounded),
         Rep(Digits, 4, 4)>>,
       <<Rep(Digits, 1, 2), Rep(Spaces, 1, Unbounded), MonthAbbr,
         Rep(Letters, 0, Unbounded), Rep({","}, 0, 1), Rep(Spaces, 1, Unbounded),
         Rep(Digits, 4, 4)>>,
       <<Rep(Digits, 1, 2), Rep({"/", "-"}, 1, 1), Rep(Digits, 1, 2),
         Rep({"/", "-"}, 1, 1), Rep(Digits, 2, 4)>> >>

\* " - "
range_separator ==
    <<" ", "-", " ">>

\* the matches of the six patterns, pattern by pattern; a single match that
\* holds " - " once is split into its two sides
SplitRange(dates) ==
    LET at == {i \in 1..(Len(dates[1]) - 2) :
                  SubSeq(dates[1], i, i + 2) = range_separator}
    IN  IF Len(dates) = 1 /\ Cardinality(at) = 1
        THEN LET i == CHOOSE i \in at : TRUE
             IN  <<Strip(SubSeq(dates[1], 1, i - 1)),
                   Strip(SubSeq(dates[1], i + 3, Len(dates[1])))>>
        ELSE dates

_extract_dates_from_line(line) ==
    TheOne({SplitRange(dates) :
               dates \in {Concat(TheOne({<<>> \o [p \in 1..Len(patterns) |->
                                             FindAll(patterns[p], line)]}))
                              : patterns \in {line_date_patterns}}})

\* the pattern of _is_date_line, searched with re.IGNORECASE
date_line_pattern ==
    <<Alt(<<MonthSlashYear, <<Rep(Digits, 4, 4)>>, Lit(m_present),
            Lit(m_current)>> \o MonthAbbr.options)>>

_is_date_line(line) ==
    Matches(date_line_pattern, line)

w_at ==
    <<"a", "t">>

w_for ==
    <<"f", "o", "r">>

w_with ==
    <<"w", "i", "t", "h">>

w_in ==
    <<"i", "n">>

\* \s+(?:at|@|for)\s+ of at_pattern, searched with re.IGNORECASE
at_separator ==
    <<Rep(Spaces, 1, Unbounded), Alt(<<Lit(w_at), Lit(<<"@">>), Lit(w_for)>>),
      Rep(Spaces, 1, Unbounded)>>

\* \s*-\s*
dash_separator ==
    <<Rep(Spaces, 0, Unbounded), Rep({"-"}, 1, 1), Rep(Spaces, 0, Unbounded)>>

\* '|'.join(separators), matched case-sensitively
separators ==
    <<Alt(<< <<Rep(Spaces, 1, Unbounded)>> \o LitExact(w_at) \o <<Rep(Spaces, 1, Unbounded)>>,
             <<Rep(Spaces, 1, Unbounded)>> \o LitExact(w_for) \o <<Rep(Spaces, 1, Unbounded)>>,
             <<Rep(Spaces, 0, Unbounded), Rep(Dashes, 1, 1), Rep(Spaces, 0, Unbounded)>>,
             <<Rep(Spaces, 0, Unbounded), Rep({"|"}, 1, 1), Rep(Spaces, 0, Unbounded)>>,
             <<Rep(Spaces, 0, Unbounded), Rep({","}, 1, 1), Rep(Spaces, 0, Unbounded)>>,
             <<Rep(Spaces, 1, Unbounded)>> \o LitExact(w_with) \o <<Rep(Spaces, 1, Unbounded)>>,
             <<Rep(Spaces, 1, Unbounded)>> \o LitExact(w_in) \o <<Rep(Spaces, 1, Unbounded)>>,
             <<Rep(Spaces, 0, Unbounded), Rep({":"}, 1, 1), Rep(Spaces, 0, Unbounded)>> >>)>>

NonEmpty(part) ==
    part # <<>>

\* the job title and the two dates that _parse_first_experience_line takes
\* from the first line of an entry
FirstLineFields(job_title, dates) ==
    [job_title |-> job_title,
     start_date |-> IF dates # <<>> THEN dates[1] ELSE <<>>,
     end_date |-> IF Len(dates) > 1 THEN dates[2] ELSE <<>>]

\* the branch of the match of at_pattern, whose first group ends at the
\* first match of at_separator and whose second group at the next dash
AtBranch(line, at_end, dash_end) ==
    LET starts == {i \in 1..Len(line) : at_end[i] # 0}
        i == CHOOSE i \in starts : \A o \in starts : i <= o
        e == at_end[i]
        stops == {j \in e..Len(line) : dash_end[j] # 0}
        j == IF stops = {} THEN Len(line) + 1
             ELSE CHOOSE j \in stops : \A o \in stops : j <= o
    IN  TheOne({FirstLineFields(job_title, date_matches) :
                   job_title \in {Strip(SubSeq(line, 1, i - 1))},
                   date_matches \in
                       {TheOne({_extract_dates_from_line(remaining) :
                                   remaining \in {Strip(SubSeq(line, e, j - 1))}})}})

\* the branch of the separators
SeparatorBranch(line) ==
    TheOne({IF Len(parts) >= 2
            THEN TheOne({FirstLineFields(parts[1], date_parts) :
                            date_parts \in {SelectSeq(SubSeq(parts, 3, Len(parts)),
                                                      _is_date_line)}})
            ELSE FirstLineFields(<<>>, <<>>)
            : parts \in {TheOne({SelectSeq([k \in 1..Len(pieces) |-> Strip(pieces[k])],
                                           NonEmpty)
                                    : pieces \in {Split(separators, line)}})}})

_parse_first_experience_line(line) ==
    TheOne({IF \E i \in 1..Len(line) : at_end[i] # 0
            THEN AtBranch(line, at_end, dash_end)
            ELSE SeparatorBranch(line)
            : at_end \in {MatchEnds(at_separator, line)},
              dash_end \in {MatchEnds(dash_separator, line)}})

\* 'present' in end_date.lower() or 'current' in end_date.lower()
NamesThePresent(end_date) ==
    Contains(m_present, Lower(end_date)) \/ Contains(m_current, Lower(end_date))

\* one pass of the loop over lines[1:] on the fields set so far
ScanDateLine(fields, dates) ==
    LET start_date == IF dates # <<>> /\ fields.start_date = <<>>
                      THEN dates[1] ELSE fields.start_date
    IN  IF Len(dates) > 1
        THEN [fields EXCEPT !.start_date = start_date,
                            !.end_date = dates[2],
                            !.is_current = NamesThePresent(dates[2])]
        ELSE [fields EXCEPT !.start_date = start_date]

RECURSIVE ScanDateLines(_, _, _)
ScanDateLines(fields, line_dates, k) ==
    IF k > Len(line_dates) THEN fields
    ELSE TheOne({ScanDateLines(next, line_dates, j) :
                    next \in {ScanDateLine(fields, line_dates[k])}, j \in {k + 1}})

\* the cross-reference of the dates of all lines
CrossReference(scanned, all_dates) ==
    LET with_start == IF scanned.start_date = <<>> /\ all_dates # <<>>
                      THEN [scanned EXCEPT !.start_date = all_dates[1]]
                      ELSE scanned
    IN  IF with_start.end_date = <<>> /\ Len(all_dates) > 1
        THEN [with_start EXCEPT !.end_date = all_dates[2],
                                !.is_current = NamesThePresent(all_dates[2])]
        ELSE with_start

\* the position, dates and is_current of the Experience that
\* _parse_experience_entry builds from the stripped, non-empty lines of an
\* entry whose first line gives the job title and the company
_parse_experience_entry(lines) ==
    TheOne({CrossReference(scanned, all_dates) :
               <<scanned, all_dates>> \in
                   {<<TheOne({ScanDateLines([position |-> first.job_title,
                                             start_date |-> first.start_date,
                                             end_date |-> first.end_date,
                                             is_current |-> FALSE],
                                            line_dates, 2)
                                 : first \in {_parse_first_experience_line(lines[1])}}),
                      Concat(line_dates)>>
                       : line_dates \in {<<>> \o [k \in 1..Len(lines) |->
                                             _extract_dates_from_line(lines[k])]}}})

l_TitleCompany ==
    <<"S", "o", "f", "t", "w", "a", "r", "e", " ", "E", "n", "g", "i", "n", "e", "e", "r", " ", "|", " ", "A", "c", "m", "e">>

l_TitleCompanyDates ==
    <<"S", "o", "f", "t", "w", "a", "r", "e", " ", "E", "n", "g", "i", "n", "e", "e", "r", " ", "|", " ", "A", "c", "m", "e", " ", "|", " ", "2", "0", "1", "9", " ", "|", " ", "P", "r", "e", "s", "e", "n", "t">>

l_TitleAtCompany ==
    <<"S", "o", "f", "t", "w", "a", "r", "e", " ", "E", "n", "g", "i", "n", "e", "e", "r", " ", "a", "t", " ", "A", "c", "m", "e">>

l_YearToPresent ==
    <<"2", "0", "1", "9", " ", "-", " ", "P", "r", "e", "s", "e", "n", "t">>

l_MonthYearToPresent ==
    <<"0", "1", "/", "2", "0", "1", "9", " ", "-", " ", "P", "r", "e", "s", "e", "n", "t">>

l_YearToYear ==
    <<"2", "0", "1", "9", " ", "-", " ", "2", "0", "2", "1">>

l_MonthNameToCurrent ==
    <<"J", "a", "n", " ", "2", "0", "1", "9", " ", "-", " ", "C", "u", "r", "r", "e", "n", "t">>

l_SlashToSlash ==
    <<"0", "3", "/", "2", "0", "2", "0", " ", "-", " ", "0", "6", "/", "2", "0", "2", "1">>

l_BuiltAPIs ==
    <<"B", "u", "i", "l", "t", " ", "A", "P", "I", "s">>

\* the first lines of the model's entries: each gives a title and a company
FirstLines ==
    {l_TitleCompany, l_TitleCompanyDates, l_TitleAtCompany}

\* the lines that may follow
FollowingLines ==
    {l_YearToPresent, l_MonthYearToPresent, l_YearToYear, l_MonthNameToCurrent,
     l_SlashToSlash, l_BuiltAPIs}

\* an entry has at most this many lines
MaxEntryLines ==
    3

\* the entries handed to _parse_experience_entry
EntryTexts ==
    {<<first>> \o following :
        first \in FirstLines, following \in SeqsUpTo(FollowingLines, MaxEntryLines - 1)}

NoEntry ==
    [position |-> <<>>, start_date |-> <<>>, end_date |-> <<>>, is_current |-> FALSE]

(* ----------------- the file service and the parse API ------------------ *)
(* An Optional value is a set: {} is None and {v} is the value v.          *)
(* The content of a JSON file is the JSON value it holds: enum members are *)
(* written as their string values and datetimes as str(datetime).          *)

v_pending ==
    <<"p", "e", "n", "d", "i", "n", "g">>

v_processing ==
    <<"p", "r", "o", "c", "e", "s", "s", "i", "n", "g">>

v_completed ==
    <<"c", "o", "m", "p", "l", "e", "t", "e", "d">>

v_failed ==
    <<"f", "a", "i", "l", "e", "d">>

v_error ==
    <<"e", "r", "r", "o", "r">>

v_pdf ==
    <<"p", "d", "f">>

v_docx ==
    <<"d", "o", "c", "x">>

v_doc ==
    <<"d", "o", "c">>

n_resume_pdf ==
    <<"r", "e", "s", "u", "m", "e", ".", "p", "d", "f">>

x_JaneDoe ==
    <<"J", "a", "n", "e", " ", "D", "o", "e">>

e_missing_file_id ==
    <<"R", "e", "s", "u", "m", "e", "P", "a", "r", "s", "e", "r", "S", "e", "r", "v", "i", "c", "e", ".", "p", "a", "r", "s", "e", "_", "r", "e", "s", "u", "m", "e", "(", ")", " ", "m", "i", "s", "s", "i", "n", "g", " ", "1", " ", "r", "e", "q", "u", "i", "r", "e", "d", " ", "p", "o", "s", "i", "t", "i", "o", "n", "a", "l", " ", "a", "r", "g", "u", "m", "e", "n", "t", ":", " ", "'", "f", "i", "l", "e", "_", "i", "d", "'">>

h_FileNotFound ==
    <<"F", "i", "l", "e", " ", "n", "o", "t", " ", "f", "o", "u", "n", "d">>

h_ParsedDataNotFound ==
    <<"P", "a", "r", "s", "e", "d", " ", "d", "a", "t", "a", " ", "n", "o", "t", " ", "f", "o", "u", "n", "d">>

h_InternalServerError ==
    <<"I", "n", "t", "e", "r", "n", "a", "l", " ", "s", "e", "r", "v", "e", "r", " ", "e", "r", "r", "o", "r">>

h_ParsingFailed ==
    <<"P", "a", "r", "s", "i", "n", "g", " ", "f", "a", "i", "l", "e", "d", ":", " ">>

\* class ProcessingStatus(str, Enum): member name -> value
ProcessingStatus ==
    [PENDING |-> v_pending, PROCESSING |-> v_processing,
     COMPLETED |-> v_completed, FAILED |-> v_failed]

\* class FileType(str, Enum): member name -> value
FileType ==
    [PDF |-> v_pdf, DOCX |-> v_docx, DOC |-> v_doc]

\* pydantic's validation of an enum field: the member with that value, if any
EnumByValue(enum, value) ==
    {name \in DOMAIN enum : enum[name] = value}

\* the decimal digits of n, zero-padded to width
ZeroPad(n, width) ==
    [i \in 1..width |-> DigitChars[((n \div (10 ^ (width - i))) % 10) + 1]]

\* str(datetime): what json.dump(..., default=str) writes for a datetime
DatetimeStr(dt) ==
    ZeroPad(dt.year, 4) \o <<"-">> \o ZeroPad(dt.month, 2) \o <<"-">>
        \o ZeroPad(dt.day, 2) \o <<" ">> \o ZeroPad(dt.hour, 2) \o <<":">>
        \o ZeroPad(dt.minute, 2) \o <<":">> \o ZeroPad(dt.second, 2)
        \o (IF dt.microsecond = 0 THEN <<>>
            ELSE <<".">> \o ZeroPad(dt.microsecond, 6))

\* pydantic's validation of a datetime field given as a string:
\* YYYY-MM-DD, "T" or a space, HH:MM:SS and an optional fraction
DatetimeFromStr(text) ==
    LET n == Len(text)
        digit_positions ==
            {1, 2, 3, 4, 6, 7, 9, 10, 12, 13, 15, 16, 18, 19}
                \cup (IF n > 19 THEN 21..n ELSE {})
        well_formed ==
            /\ n = 19 \/ n \in 21..26
            /\ text[5] = "-" /\ text[8] = "-"
            /\ text[11] \in {" ", "T"}
            /\ text[14] = ":" /\ text[17] = ":"
            /\ n > 19 => text[20] = "."
            /\ \A i \in digit_positions : IsDigit(text[i])
    IN  IF ~well_formed THEN {}
        ELSE {[year |-> ToInt(SubSeq(text, 1, 4)),
               month |-> ToInt(SubSeq(text, 6, 7)),
               day |-> ToInt(SubSeq(text, 9, 10)),
               hour |-> ToInt(SubSeq(text, 12, 13)),
               minute |-> ToInt(SubSeq(text, 15, 16)),
               second |-> ToInt(SubSeq(text, 18, 19)),
               microsecond |->
                   IF n = 19 THEN 0
                   ELSE ToInt(SubSeq(text, 21, n)) * (10 ^ (26 - n))]}

\* datetime.now().isoformat() of the clock, whose time of day is midnight
IsoFormat(clock) ==
    ZeroPad(clock.year, 4) \o <<"-">> \o ZeroPad(clock.month, 2) \o <<"-">>
        \o ZeroPad(clock.day, 2) \o <<"T", "0", "0", ":", "0", "0", ":", "0", "0">>

\* ParsedResume.model_dump() written by json.dump: the JSON value of the file
\* apart from the keys that save_parsed_data adds or overwrites
JsonOfParsedResume(resume) ==
    [id |-> resume.id,
     filename |-> resume.filename,
     raw_text |-> resume.raw_text,
     parsed_data |-> resume.parsed_data,
     metadata |-> [file_size |-> resume.metadata.file_size,
                   file_type |-> FileType[resume.metadata.file_type],
                   pages |-> resume.metadata.pages,
                   upload_date |-> DatetimeStr(resume.metadata.upload_date),
                   processing_time |-> resume.metadata.processing_time],
     status |-> ProcessingStatus[resume.status],
     error_message |-> resume.error_message]

\* the JSON value that save_parsed_data writes for parsed_data, given the
\* file's metadata entry (an Optional) and the clock
SavedJson(file_id, resume, file_metadata, clock) ==
    LET dumped == JsonOfParsedResume(resume)
        status == IF file_metadata # {}
                  THEN (CHOOSE entry \in file_metadata : TRUE).status
                  ELSE dumped.status
    IN  [id |-> dumped.id,
         filename |-> dumped.filename,
         raw_text |-> dumped.raw_text,
         parsed_data |-> dumped.parsed_data,
         metadata |-> dumped.metadata,
         status |-> status,
         error_message |-> dumped.error_message,
         file_id |-> file_id,
         saved_at |-> IsoFormat(clock)]

\* ParsedResume(...) on the loaded dict: the keys that are no fields are ignored, the
\* enum and datetime fields are validated; {} stands for a ValidationError
ParsedResumeFromJson(data) ==
    LET statuses == EnumByValue(ProcessingStatus, data.status)
        file_types == EnumByValue(FileType, data.metadata.file_type)
        upload_dates == DatetimeFromStr(data.metadata.upload_date)
    IN  {[id |-> data.id,
          filename |-> data.filename,
          raw_text |-> data.raw_text,
          parsed_data |-> data.parsed_data,
          metadata |-> [file_size |-> data.metadata.file_size,
                        file_type |-> file_type,
                        pages |-> data.metadata.pages,
                        upload_date |-> upload_date,
                        processing_time |-> data.metadata.processing_time],
          status |-> status,
          error_message |-> data.error_message] :
            status \in statuses, file_type \in file_types,
            upload_date \in upload_dates}

\* the metadata entry that save_file creates
NewFileMetadata(original_filename) ==
    [original_filename |-> original_filename,
     status |-> v_pending,
     error_message |-> {},
     processing_started_at |-> {},
     parsed_at |-> {},
     processing_time |-> {}]

\* update_file_status on an existing entry
UpdatedFileMetadata(entry, status, error_message, clock) ==
    LET with_status == [entry EXCEPT !.status = status]
        with_message ==
            IF error_message # {} /\ error_message # {<<>>}
            THEN [with_status EXCEPT !.error_message = error_message]
            ELSE with_status
    IN  IF status = v_processing
        THEN [with_message EXCEPT !.processing_started_at = {clock}]
        ELSE IF status \in {v_completed, v_error}
        THEN [with_message EXCEPT
                  !.parsed_at = {clock},
                  !.processing_time =
                      IF entry.processing_started_at # {}
                      THEN {[started |-> start, ended |-> clock] :
                                start \in entry.processing_started_at}
                      ELSE entry.processing_time]
        ELSE with_message

\* an HTTP response: the status code, the body of a 200 and the detail of
\* an HTTPException
HttpResponse(endpoint, file_id, status_code, body, detail) ==
    [endpoint |-> endpoint, file_id |-> file_id, status_code |-> status_code,
     body |-> body, detail |-> detail]

f_1 ==
    <<"f", "1">>

\* the file ids that uuid4 hands out
FileIds ==
    {f_1}

UploadDates ==
    {[year |-> 2024, month |-> 3, day |-> 5, hour |-> 10, minute |-> 30,
      second |-> 0, microsecond |-> us] : us \in {0, 4500}}

\* ParsedData(): every list empty
NoParsedData ==
    [experience |-> <<>>, education |-> <<>>]

\* the ParsedResume objects a caller holds for a file
ParsedResumes(file_id) ==
    {[id |-> file_id,
      filename |-> n_resume_pdf,
      raw_text |-> x_JaneDoe,
      parsed_data |-> NoParsedData,
      metadata |-> [file_size |-> 1024, file_type |-> "PDF", pages |-> pages,
                    upload_date |-> upload_date, processing_time |-> {}],
      status |-> status,
      error_message |-> {}] :
        pages \in {{}, {2}}, upload_date \in UploadDates,
        status \in {"COMPLETED", "PENDING"}}

\* the status arguments of update_file_status
FileStatuses ==
    {v_processing, v_completed, v_error}

NoResponse ==
    HttpResponse("", <<>>, 0, {}, <<>>)

(* ------------------- JobService (job_service.py) ----------------------- *)
(* The jobs file is absent, holds a JSON value or holds bytes that are not *)
(* JSON. A job of the file is the JSON value of its dict: the status is    *)
(* the value of the enum member and a datetime is str(datetime).           *)

v_active ==
    <<"a", "c", "t", "i", "v", "e">>

v_paused ==
    <<"p", "a", "u", "s", "e", "d">>

v_closed ==
    <<"c", "l", "o", "s", "e", "d">>

v_draft ==
    <<"d", "r", "a", "f", "t">>

\* class JobStatus(str, Enum): member name -> value
JobStatus ==
    [ACTIVE |-> v_active, PAUSED |-> v_paused,
     CLOSED |-> v_closed, DRAFT |-> v_draft]

\* datetime.now() of the clock, whose time of day is midnight
ClockDatetime(clock) ==
    [year |-> clock.year, month |-> clock.month, day |-> clock.day,
     hour |-> 0, minute |-> 0, second |-> 0, microsecond |-> 0]

\* the interpreter's limit on the depth of nested calls
\* (1000 in CPython), scaled down
RecursionLimit ==
    4

\* str(uuid.uuid4()) of the n-th draw: no two draws give the same id
Uuid4(n) ==
    n

NoFileMetadata ==
    [created_at |-> <<>>, last_updated |-> <<>>]

\* the jobs file does not exist
AbsentFile ==
    [kind |-> "absent", jobs |-> <<>>, metadata |-> NoFileMetadata]

\* the jobs file holds bytes that json.load rejects
InvalidJsonFile ==
    [kind |-> "invalid", jobs |-> <<>>, metadata |-> NoFileMetadata]

\* the jobs file holds {"jobs": jobs, "metadata": metadata}
JsonFile(jobs, metadata) ==
    [kind |-> "json", jobs |-> jobs, metadata |-> metadata]

\* what a method of the service does: the exception it raises ("" if none),
\* the value it returns and the jobs file it leaves
Outcome(raised, value, file) ==
    [raised |-> raised, value |-> value, file |-> file]

\* ensure_jobs_file: writes the initial structure only if no file exists
ensure_jobs_file(file, clock) ==
    IF file.kind = "absent"
    THEN JsonFile(<<>>, [created_at |-> IsoFormat(clock),
                         last_updated |-> IsoFormat(clock)])
    ELSE file

\* load_jobs at a depth of nested calls: FileNotFoundError and
\* JSONDecodeError lead to ensure_jobs_file and to a nested load_jobs
RECURSIVE load_jobs_at(_, _, _)
load_jobs_at(file, clock, depth) ==
    IF depth > RecursionLimit THEN Outcome("RecursionError", <<>>, file)
    ELSE IF file.kind = "json"
    THEN Outcome("", [jobs |-> file.jobs, metadata |-> file.metadata], file)
    ELSE load_jobs_at(ensure_jobs_file(file, clock), clock, depth + 1)

load_jobs(file, clock) ==
    load_jobs_at(file, clock, 1)

\* save_jobs: last_updated is set and the file is rewritten
save_jobs(data, clock) ==
    JsonFile(data.jobs, [data.metadata EXCEPT !.last_updated = IsoFormat(clock)])

\* the fields of a job that the model keeps
JobFields ==
    {"id", "title", "salary_min", "salary_max", "status",
     "posted_date", "created_at", "updated_at"}

\* the positions of the jobs of the list that have the id
PositionsOf(jobs, job_id) ==
    {i \in 1..Len(jobs) : jobs[i].id = job_id}

\* the first job of the list with the id, as the for loops find it
FirstPosition(jobs, job_id) ==
    CHOOSE i \in PositionsOf(jobs, job_id) :
        \A j \in PositionsOf(jobs, job_id) : i <= j

\* create_job(job_data) when uuid4 gives job_id
create_job(file, job_data, job_id, clock) ==
    LET loaded == load_jobs(file, clock)
        job == [id |-> job_id,
                title |-> job_data.title,
                salary_min |-> job_data.salary_min,
                salary_max |-> job_data.salary_max,
                status |-> JobStatus.DRAFT,
                posted_date |-> {},
                created_at |-> DatetimeStr(ClockDatetime(clock)),
                updated_at |-> DatetimeStr(ClockDatetime(clock))]
    IN  IF loaded.raised # "" THEN Outcome(loaded.raised, {}, loaded.file)
        ELSE Outcome("", {job},
                     save_jobs([loaded.value EXCEPT !.jobs = Append(@, job)], clock))

\* get_job(job_id): the job with the id, None without one
get_job(file, job_id, clock) ==
    LET loaded == load_jobs(file, clock)
    IN  IF loaded.raised # "" THEN Outcome(loaded.raised, {}, loaded.file)
        ELSE IF PositionsOf(loaded.value.jobs, job_id) = {}
        THEN Outcome("", {}, loaded.file)
        ELSE Outcome("", {loaded.value.jobs[FirstPosition(loaded.value.jobs, job_id)]},
                     loaded.file)

\* updates.dict(exclude_unset=True) as json.dump writes it
JsonOfUpdates(updates) ==
    [field \in DOMAIN updates |->
        IF field = "status" THEN JobStatus[updates[field]] ELSE updates[field]]

\* the update_dict of update_job for a job of the file
UpdateDict(job_data, updates, clock) ==
    LET sets_posted_date ==
            /\ "status" \in DOMAIN updates
            /\ updates["status"] = "ACTIVE"
            /\ job_data.posted_date = {}
        stamped == DOMAIN updates \cup {"updated_at"}
                       \cup (IF sets_posted_date THEN {"posted_date"} ELSE {})
    IN  [field \in stamped |->
            IF field = "updated_at" THEN DatetimeStr(ClockDatetime(clock))
            ELSE IF field = "posted_date" THEN {DatetimeStr(ClockDatetime(clock))}
            ELSE JsonOfUpdates(updates)[field]]

\* an update that leaves the dict as it was
DictUpdateIgnored(job_data, update_dict) ==
    job_data

\* job_data.update(update_dict)
DictUpdate(job_data, update_dict) ==
    [field \in JobFields |->
        IF field \in DOMAIN update_dict THEN update_dict[field]
        ELSE job_data[field]]

\* update_job(job_id, updates): None, and no write, without such a job
update_job(file, job_id, updates, clock) ==
    LET loaded == load_jobs(file, clock)
    IN  IF loaded.raised # "" THEN Outcome(loaded.raised, {}, loaded.file)
        ELSE IF PositionsOf(loaded.value.jobs, job_id) = {}
        THEN Outcome("", {}, loaded.file)
        ELSE LET i == FirstPosition(loaded.value.jobs, job_id)
                 job_data == DictUpdate(loaded.value.jobs[i],
                                        UpdateDict(loaded.value.jobs[i], updates, clock))
             IN  Outcome("", {job_data},
                         save_jobs([loaded.value EXCEPT !.jobs[i] = job_data], clock))

\* delete_job(job_id): True once the job is removed, False without one
delete_job(file, job_id, clock) ==
    LET loaded == load_jobs(file, clock)
    IN  IF loaded.raised # "" THEN Outcome(loaded.raised, FALSE, loaded.file)
        ELSE IF PositionsOf(loaded.value.jobs, job_id) = {}
        THEN Outcome("", FALSE, loaded.file)
        ELSE LET i == FirstPosition(loaded.value.jobs, job_id)
                 jobs == loaded.value.jobs
             IN  Outcome("", TRUE,
                         save_jobs([loaded.value EXCEPT !.jobs =
                                        SubSeq(jobs, 1, i - 1)
                                            \o SubSeq(jobs, i + 1, Len(jobs))],
                                   clock))

\* at most this many jobs are created
MaxJobs ==
    2

\* the JobDescriptionCreate input: salary_max >= salary_min
JobCreates ==
    { [title |-> t_SoftwareEngineer, salary_min |-> {100}, salary_max |-> {150}] }

\* the values that an update gives to a field
UpdateValues ==
    [title : {t_SeniorSoftwareEngineer}, salary_max : {{180}}, status : {"ACTIVE"}]

\* the JobDescriptionUpdate inputs: the fields that are set and their values
JobUpdates ==
    { [field \in fields |-> values[field]] :
          values \in UpdateValues,
          fields \in {{}, {"title", "salary_max"}, {"status"}, {"title", "status"}} }

\* no call is in progress
NoCall ==
    [op |-> "", job_id |-> 0, updates |-> <<>>, raised |-> "", value |-> {}]

\* a call of a method and what it raised or returned
Call(op, job_id, updates, outcome) ==
    [op |-> op, job_id |-> job_id, updates |-> updates,
     raised |-> outcome.raised, value |-> outcome.value]

(* ------------- concurrent create_job on one JobService ----------------- *)
(* The bytes of jobs.json while threads write it: the JSON text at the     *)
(* start of the file, if one is there, and the size of the file. The texts *)
(* of two job lists of the same length have the same size, and a longer    *)
(* list has a longer text. A text of the model is the list of the job ids. *)

\* this many threads call create_job
MaxThreads ==
    4

Threads ==
    1..MaxThreads

\* the size of the text of a job list; an empty file has size 0
TextSize(jobs) ==
    Len(jobs) + 1

\* the file holds exactly the text of the job list
BytesOf(jobs) ==
    [text |-> {jobs}, size |-> TextSize(jobs)]

\* open(self.jobs_file, 'w') truncates the file
Truncated ==
    [text |-> {}, size |-> 0]

\* the buffered text is written at the start of the file when it is
\* closed: bytes that another writer put beyond its end stay
WrittenOver(bytes, jobs) ==
    [text |-> {jobs},
     size |-> IF bytes.size > TextSize(jobs) THEN bytes.size ELSE TextSize(jobs)]

\* json.load accepts the bytes: one JSON text and nothing after it
IsJson(bytes) ==
    \E jobs \in bytes.text : bytes.size = TextSize(jobs)

\* what a thread holds before its call has returned or raised
NoResult ==
    [raised |-> "", job_id |-> 0]

(* --------------- _extract_section: the span of a section --------------- *)
(* A document is the sequence of its lines, text.split('\n'); a span is    *)
(* the position of its first line and the position after its last line.    *)

\* len(s.split()): the number of maximal runs of characters other than
\* white space
WordCount(s) ==
    Cardinality({i \in 1..Len(s) :
                    ~IsSpace(s[i]) /\ (i = 1 \/ IsSpace(s[i - 1]))})

\* any(keyword in line.lower().strip() for keyword in keywords)
HasKeyword(line, keywords) ==
    \E line_lower \in {Strip(Lower(line))} :
        \E keyword \in keywords : Contains(keyword, line_lower)

\* exp_section_keywords of _extract_experience
exp_section_keywords ==
    { <<"e", "x", "p", "e", "r", "i", "e", "n", "c", "e">>,
      <<"w", "o", "r", "k", " ", "e", "x", "p", "e", "r", "i", "e", "n", "c", "e">>,
      <<"p", "r", "o", "f", "e", "s", "s", "i", "o", "n", "a", "l", " ", "e", "x", "p", "e", "r", "i", "e", "n", "c", "e">>,
      <<"e", "m", "p", "l", "o", "y", "m", "e", "n", "t">>,
      <<"c", "a", "r", "e", "e", "r">>,
      <<"w", "o", "r", "k", " ", "h", "i", "s", "t", "o", "r", "y">>,
      <<"p", "o", "s", "i", "t", "i", "o", "n", "s">>,
      <<"r", "o", "l", "e", "s">>,
      <<"j", "o", "b", " ", "h", "i", "s", "t", "o", "r", "y">> }

\* edu_section_keywords of _extract_education
edu_section_keywords ==
    { <<"e", "d", "u", "c", "a", "t", "i", "o", "n">>,
      <<"a", "c", "a", "d", "e", "m", "i", "c", " ", "b", "a", "c", "k", "g", "r", "o", "u", "n", "d">>,
      <<"q", "u", "a", "l", "i", "f", "i", "c", "a", "t", "i", "o", "n", "s">>,
      <<"d", "e", "g", "r", "e", "e", "s">>,
      <<"a", "c", "a", "d", "e", "m", "i", "c">>,
      <<"u", "n", "i", "v", "e", "r", "s", "i", "t", "y">>,
      <<"c", "o", "l", "l", "e", "g", "e">>,
      <<"s", "c", "h", "o", "o", "l">> }

\* skills_section_keywords of _extract_skills
skills_section_keywords ==
    { <<"s", "k", "i", "l", "l", "s">>,
      <<"t", "e", "c", "h", "n", "o", "l", "o", "g", "i", "e", "s">>,
      <<"t", "o", "o", "l", "s">>,
      <<"c", "o", "m", "p", "e", "t", "e", "n", "c", "i", "e", "s">>,
      <<"a", "b", "i", "l", "i", "t", "i", "e", "s">> }

\* the headers that end a section
section_headers ==
    { <<"e", "x", "p", "e", "r", "i", "e", "n", "c", "e">>,
      <<"w", "o", "r", "k">>,
      <<"e", "m", "p", "l", "o", "y", "m", "e", "n", "t">>,
      <<"e", "d", "u", "c", "a", "t", "i", "o", "n">>,
      <<"a", "c", "a", "d", "e", "m", "i", "c">>,
      <<"s", "k", "i", "l", "l", "s">>,
      <<"p", "r", "o", "j", "e", "c", "t", "s">>,
      <<"c", "e", "r", "t", "i", "f", "i", "c", "a", "t", "i", "o", "n", "s">>,
      <<"a", "w", "a", "r", "d", "s">>,
      <<"p", "u", "b", "l", "i", "c", "a", "t", "i", "o", "n", "s">>,
      <<"r", "e", "f", "e", "r", "e", "n", "c", "e", "s">>,
      <<"c", "o", "n", "t", "a", "c", "t">>,
      <<"s", "u", "m", "m", "a", "r", "y">>,
      <<"o", "b", "j", "e", "c", "t", "i", "v", "e">> }

\* the least element of a non-empty set of positions
Least(positions) ==
    CHOOSE i \in positions : \A j \in positions : i <= j

\* _extract_section(text, keywords): None when no line has a keyword, else
\* the span from the first line with a keyword to the next line of at most
\* four words that has a header, or to the end of the text
_extract_section(lines, keywords) ==
    LET starts == {i \in 1..Len(lines) : HasKeyword(lines[i], keywords)}
    IN  IF starts = {} THEN {}
        ELSE {[start |-> section_start,
               end |-> IF ends = {} THEN Len(lines) + 1 ELSE Least(ends)] :
                 <<section_start, ends>> \in
                     {<<first,
                        {i \in (first + 1)..Len(lines) :
                            /\ HasKeyword(lines[i], section_headers)
                            /\ WordCount(Strip(Lower(lines[i]))) <= 4}>> :
                          first \in {Least(starts)}}}

\* the spans of the three kinds of section that the extractors ask for
SectionSpans(lines) ==
    [experience |-> _extract_section(lines, exp_section_keywords),
     education |-> _extract_section(lines, edu_section_keywords),
     skills |-> _extract_section(lines, skills_section_keywords)]

NoSpans ==
    [experience |-> {}, education |-> {}, skills |-> {}]

l_WorkExperience ==
    <<"W", "o", "r", "k", " ", "E", "x", "p", "e", "r", "i", "e", "n", "c", "e">>

l_Education ==
    <<"E", "d", "u", "c", "a", "t", "i", "o", "n">>

l_Skills ==
    <<"S", "k", "i", "l", "l", "s">>

l_TaughtAtUniversity ==
    <<"T", "a", "u", "g", "h", "t", " ", "P", "y", "t", "h", "o", "n", " ", "t", "o", "o", "l", "s", " ", "a", "t", " ", "S", "t", "a", "t", "e", " ", "U", "n", "i", "v", "e", "r", "s", "i", "t", "y", " ", "f", "o", "r", " ", "t", "w", "o", " ", "y", "e", "a", "r", "s">>

l_PythonSql ==
    <<"P", "y", "t", "h", "o", "n", ",", " ", "S", "Q", "L">>

l_AcmeCorp ==
    <<"A", "c", "m", "e", " ", "C", "o", "r", "p">>

\* the lines of the documents: three headings, a line of content that
\* names a tool and a university, and two short lines of content
SectionLines ==
    {l_WorkExperience, l_Education, l_Skills, l_TaughtAtUniversity, l_PythonSql, l_AcmeCorp}

\* a document has at most this many lines
MaxDocLines ==
    4

SectionDocuments ==
    UNION {[1..n -> SectionLines] : n \in 0..MaxDocLines}

(* ------------- the scan of the whole text for experience --------------- *)
(* _extract_experience scans the whole text for entries when the text has  *)
(* no experience section.                                                  *)

common_job_titles ==
    { <<"s", "o", "f", "t", "w", "a", "r", "e", " ", "e", "n", "g", "i", "n", "e", "e", "r">>,
      <<"s", "o", "f", "t", "w", "a", "r", "e", " ", "d", "e", "v", "e", "l", "o", "p", "e", "r">>,
      <<"w", "e", "b", " ", "d", "e", "v", "e", "l", "o", "p", "e", "r">>,
      <<"f", "r", "o", "n", "t", "e", "n", "d", " ", "d", "e", "v", "e", "l", "o", "p", "e", "r">>,
      <<"b", "a", "c", "k", "e", "n", "d", " ", "d", "e", "v", "e", "l", "o", "p", "e", "r">>,
      <<"f", "u", "l", "l", " ", "s", "t", "a", "c", "k", " ", "d", "e", "v", "e", "l", "o", "p", "e", "r">>,
      <<"d", "a", "t", "a", " ", "s", "c", "i", "e", "n", "t", "i", "s", "t">>,
      <<"d", "a", "t", "a", " ", "a", "n", "a", "l", "y", "s", "t">>,
      <<"m", "a", "c", "h", "i", "n", "e", " ", "l", "e", "a", "r", "n", "i", "n", "g", " ", "e", "n", "g", "i", "n", "e", "e", "r">>,
      <<"d", "e", "v", "o", "p", "s", " ", "e", "n", "g", "i", "n", "e", "e", "r">>,
      <<"s", "y", "s", "t", "e", "m", " ", "a", "d", "m", "i", "n", "i", "s", "t", "r", "a", "t", "o", "r">>,
      <<"n", "e", "t", "w", "o", "r", "k", " ", "a", "d", "m", "i", "n", "i", "s", "t", "r", "a", "t", "o", "r">>,
      <<"p", "r", "o", "d", "u", "c", "t", " ", "m", "a", "n", "a", "g", "e", "r">>,
      <<"p", "r", "o", "j", "e", "c", "t", " ", "m", "a", "n", "a", "g", "e", "r">>,
      <<"u", "i", " ", "d", "e", "s", "i", "g", "n", "e", "r">>,
      <<"u", "x", " ", "d", "e", "s", "i", "g", "n", "e", "r">>,
      <<"g", "r", "a", "p", "h", "i", "c", " ", "d", "e", "s", "i", "g", "n", "e", "r">>,
      <<"m", "a", "r", "k", "e", "t", "i", "n", "g", " ", "m", "a", "n", "a", "g", "e", "r">>,
      <<"s", "a", "l", "e", "s", " ", "r", "e", "p", "r", "e", "s", "e", "n", "t", "a", "t", "i", "v", "e">>,
      <<"b", "u", "s", "i", "n", "e", "s", "s", " ", "a", "n", "a", "l", "y", "s", "t">>,
      <<"f", "i", "n", "a", "n", "c", "i", "a", "l", " ", "a", "n", "a", "l", "y", "s", "t">>,
      <<"a", "c", "c", "o", "u", "n", "t", "a", "n", "t">>,
      <<"h", "r", " ", "m", "a", "n", "a", "g", "e", "r">>,
      <<"o", "p", "e", "r", "a", "t", "i", "o", "n", "s", " ", "m", "a", "n", "a", "g", "e", "r">>,
      <<"c", "e", "o">>, <<"c", "t", "o">>, <<"c", "f", "o">>,
      <<"c", "o", "o">>, <<"i", "n", "t", "e", "r", "n">>,
      <<"a", "s", "s", "o", "c", "i", "a", "t", "e">>,
      <<"c", "o", "n", "s", "u", "l", "t", "a", "n", "t">>,
      <<"a", "n", "a", "l", "y", "s", "t">>,
      <<"s", "p", "e", "c", "i", "a", "l", "i", "s", "t">>,
      <<"l", "e", "a", "d">>, <<"s", "e", "n", "i", "o", "r">>,
      <<"j", "u", "n", "i", "o", "r">>,
      <<"d", "i", "r", "e", "c", "t", "o", "r">>,
      <<"a", "r", "c", "h", "i", "t", "e", "c", "t">>,
      <<"c", "o", "o", "r", "d", "i", "n", "a", "t", "o", "r">>,
      <<"a", "d", "m", "i", "n", "i", "s", "t", "r", "a", "t", "o", "r">>,
      <<"p", "r", "o", "g", "r", "a", "m", "m", "e", "r">>,
      <<"s", "c", "i", "e", "n", "t", "i", "s", "t">>,
      <<"e", "x", "p", "e", "r", "t">> }

\* the en dash indicator is left out: it does not occur in the texts of
\* the model
job_indicators ==
    { <<" ", "a", "t", " ">>, <<" ", "-", " ">>,
      <<" ", "f", "o", "r", " ">>, <<"|">>, <<":">> }

\* \d{4}|\d{1,2}[/-]\d{2,4}
job_date_pattern ==
    <<Alt(<< <<Rep(Digits, 4, 4)>>,
             <<Rep(Digits, 1, 2), Rep({"/", "-"}, 1, 1), Rep(Digits, 2, 4)>> >>)>>

\* ^[A-Z][a-zA-Z]+(?:\s+[A-Z][a-zA-Z]+)* matches where its first word
\* matches: the group may repeat zero times
title_case_pattern ==
    <<Rep({UpperChars[i] : i \in 1..26}, 1, 1), Rep(Letters, 1, Unbounded)>>

_is_job_title_line(line) ==
    \/ \E indicator \in job_indicators : Contains(indicator, line)
    \/ \E title \in common_job_titles : Contains(title, Lower(line))
    \/ Matches(job_date_pattern, line)
    \/ /\ \E end \in {MatchEnds(title_case_pattern, Strip(line))} : end[1] # 0
       /\ WordCount(line) <= 6

fallback_section_headers ==
    { <<"e", "d", "u", "c", "a", "t", "i", "o", "n">>,
      <<"s", "k", "i", "l", "l", "s">>,
      <<"p", "r", "o", "j", "e", "c", "t", "s">>,
      <<"c", "e", "r", "t", "i", "f", "i", "c", "a", "t", "i", "o", "n", "s">>,
      <<"a", "w", "a", "r", "d", "s">>,
      <<"p", "u", "b", "l", "i", "c", "a", "t", "i", "o", "n", "s">>,
      <<"r", "e", "f", "e", "r", "e", "n", "c", "e", "s">>,
      <<"c", "o", "n", "t", "a", "c", "t">>,
      <<"s", "u", "m", "m", "a", "r", "y">>,
      <<"o", "b", "j", "e", "c", "t", "i", "v", "e">> }

_is_section_header(line) ==
    \E header \in fallback_section_headers : Contains(header, Lower(Strip(line)))

\* an entry holds at most this many lines
EntryLineLimit ==
    10

\* the lines of the entry that starts at line i: the line and the non-empty
\* lines after it, up to the next job title line or section header
EntryLinesAt(stripped, breaks, i) ==
    LET stops == {j \in (i + 1)..Len(stripped) : breaks[j]}
        stop == IF stops = {} THEN Len(stripped) + 1 ELSE Least(stops)
        entry_lines == <<stripped[i]>> \o SelectSeq(SubSeq(stripped, i + 1, stop - 1), NonEmpty)
    IN  SubSeq(entry_lines, 1, IF Len(entry_lines) < EntryLineLimit
                               THEN Len(entry_lines) ELSE EntryLineLimit)

\* the Experience objects of the entries whose _parse_experience_entry is
\* not None (it is None when the first line gives no job title), in the
\* order of their first lines
_extract_experience_from_full_text(lines) ==
    TheOne({TheOne({<<>> \o [k \in 1..Len(found) |-> entries[found[k]]] :
                       found \in {<<>> \o Ascending({i \in 1..Len(lines) :
                                             /\ entries[i] # NoEntry
                                             /\ entries[i].position # <<>>})}})
               : entries \in
                   {TheOne({<<>> \o [i \in 1..Len(lines) |->
                                IF stripped[i] # <<>> /\ titles[i]
                                THEN TheOne({_parse_experience_entry(entry_lines) :
                                                entry_lines \in {EntryLinesAt(stripped, breaks, i)}})
                                ELSE NoEntry]
                              : <<stripped, titles, breaks>> \in
                                  {<<stripped, titles,
                                     <<>> \o [i \in 1..Len(stripped) |->
                                                 titles[i] \/ _is_section_header(stripped[i])]>>
                                      : <<stripped, titles>> \in
                                          {<<stripped,
                                             <<>> \o [i \in 1..Len(stripped) |->
                                                         _is_job_title_line(stripped[i])]>>
                                              : stripped \in
                                                  {<<>> \o [i \in 1..Len(lines) |->
                                                               Strip(lines[i])]}}}})}})

l_CtoAcme ==
    <<"C", "T", "O", " ", "|", " ", "A", "c", "m", "e">>

l_built_apis ==
    <<"b", "u", "i", "l", "t", " ", "a", "p", "i", "s">>

\* the lines of the texts without an experience heading: a title and a
\* company, and a line of description
FallbackLines ==
    {l_CtoAcme, l_built_apis}

\* a text of the scan has at most this many lines
MaxFallbackLines ==
    6

FallbackDocuments ==
    {lines \in UNION {[1..n -> FallbackLines] : n \in 0..MaxFallbackLines} :
        _extract_section(lines, exp_section_keywords) = {}}

NoExperience ==
    <<>>

(* ------------------------- the skills extractor ------------------------ *)

\* the keys of skills_database, in the order of the dict
skill_categories ==
    <<"programming", "web_frameworks", "databases", "cloud", "data_science", "devops", "testing", "mobile">>

\* skills_database: category -> list of terms
skills_database ==
    [programming |->
         << <<"p", "y", "t", "h", "o", "n">>, <<"j", "a", "v", "a">>,
           <<"j", "a", "v", "a", "s", "c", "r", "i", "p", "t">>,
           <<"c", "+", "+">>, <<"c", "#">>, <<"p", "h", "p">>,
           <<"r", "u", "b", "y">>, <<"g", "o">>, <<"r", "u", "s", "t">>,
           <<"s", "w", "i", "f", "t">>, <<"k", "o", "t", "l", "i", "n">>,
           <<"s", "c", "a", "l", "a">>, <<"r">>,
           <<"m", "a", "t", "l", "a", "b">>, <<"s", "q", "l">>,
           <<"n", "o", "s", "q", "l">>, <<"h", "t", "m", "l">>,
           <<"c", "s", "s">>,
           <<"t", "y", "p", "e", "s", "c", "r", "i", "p", "t">>,
           <<"d", "a", "r", "t">>, <<"p", "e", "r", "l">>,
           <<"l", "u", "a">>, <<"h", "a", "s", "k", "e", "l", "l">>,
           <<"e", "l", "i", "x", "i", "r">>,
           <<"c", "l", "o", "j", "u", "r", "e">>,
           <<"e", "r", "l", "a", "n", "g">>, <<"f", "#">>,
           <<"o", "b", "j", "e", "c", "t", "i", "v", "e", "-", "c">>,
           <<"a", "s", "s", "e", "m", "b", "l", "y">>,
           <<"b", "a", "s", "h">>, <<"s", "h", "e", "l", "l">>,
           <<"p", "o", "w", "e", "r", "s", "h", "e", "l", "l">> >>,
     web_frameworks |->
         << <<"r", "e", "a", "c", "t">>,
           <<"a", "n", "g", "u", "l", "a", "r">>, <<"v", "u", "e">>,
           <<"n", "o", "d", "e">>, <<"e", "x", "p", "r", "e", "s", "s">>,
           <<"d", "j", "a", "n", "g", "o">>,
           <<"s", "p", "r", "i", "n", "g">>,
           <<"l", "a", "r", "a", "v", "e", "l">>,
           <<"r", "a", "i", "l", "s">>,
           <<"a", "s", "p", ".", "n", "e", "t">>,
           <<"n", "e", "x", "t", ".", "j", "s">>,
           <<"n", "u", "x", "t", ".", "j", "s">>,
           <<"s", "v", "e", "l", "t", "e">>, <<"e", "m", "b", "e", "r">>,
           <<"b", "a", "c", "k", "b", "o", "n", "e">>,
           <<"m", "e", "t", "e", "o", "r">>, <<"k", "o", "a">>,
           <<"f", "a", "s", "t", "a", "p", "i">>, <<"g", "i", "n">>,
           <<"n", "e", "s", "t", "j", "s">>, <<"r", "e", "m", "i", "x">> >>,
     databases |->
         << <<"m", "y", "s", "q", "l">>,
           <<"p", "o", "s", "t", "g", "r", "e", "s", "q", "l">>,
           <<"m", "o", "n", "g", "o", "d", "b">>,
           <<"r", "e", "d", "i", "s">>, <<"o", "r", "a", "c", "l", "e">>,
           <<"s", "q", "l", " ", "s", "e", "r", "v", "e", "r">>,
           <<"f", "i", "r", "e", "b", "a", "s", "e">>,
           <<"c", "a", "s", "s", "a", "n", "d", "r", "a">>,
           <<"e", "l", "a", "s", "t", "i", "c", "s", "e", "a", "r", "c", "h">>,
           <<"d", "y", "n", "a", "m", "o", "d", "b">>,
           <<"n", "e", "o", "4", "j">>,
           <<"c", "o", "u", "c", "h", "d", "b">>,
           <<"s", "q", "l", "i", "t", "e">>,
           <<"m", "a", "r", "i", "a", "d", "b">>,
           <<"a", "m", "a", "z", "o", "n", " ", "r", "e", "d", "s", "h", "i", "f", "t">>,
           <<"s", "n", "o", "w", "f", "l", "a", "k", "e">>,
           <<"b", "i", "g", "q", "u", "e", "r", "y">>,
           <<"h", "i", "v", "e">> >>,
     cloud |->
         << <<"a", "w", "s">>, <<"a", "z", "u", "r", "e">>,
           <<"g", "c", "p">>, <<"d", "o", "c", "k", "e", "r">>,
           <<"k", "u", "b", "e", "r", "n", "e", "t", "e", "s">>,
           <<"t", "e", "r", "r", "a", "f", "o", "r", "m">>,
           <<"j", "e", "n", "k", "i", "n", "s">>,
           <<"a", "n", "s", "i", "b", "l", "e">>,
           <<"o", "p", "e", "n", "s", "h", "i", "f", "t">>,
           <<"h", "e", "r", "o", "k", "u">>,
           <<"d", "i", "g", "i", "t", "a", "l", "o", "c", "e", "a", "n">>,
           <<"l", "i", "n", "o", "d", "e">>,
           <<"c", "l", "o", "u", "d", "f", "l", "a", "r", "e">>,
           <<"v", "e", "r", "c", "e", "l">>,
           <<"n", "e", "t", "l", "i", "f", "y">>,
           <<"o", "p", "e", "n", "s", "h", "i", "f", "t">>,
           <<"r", "a", "n", "c", "h", "e", "r">>,
           <<"m", "e", "s", "o", "s">>, <<"l", "a", "m", "b", "d", "a">>,
           <<"e", "c", "2">>, <<"s", "3">>, <<"e", "k", "s">>,
           <<"e", "c", "s">>,
           <<"a", "p", "p", " ", "e", "n", "g", "i", "n", "e">>,
           <<"c", "l", "o", "u", "d", " ", "r", "u", "n">> >>,
     data_science |->
         << <<"p", "a", "n", "d", "a", "s">>, <<"n", "u", "m", "p", "y">>,
           <<"s", "c", "i", "k", "i", "t", "-", "l", "e", "a", "r", "n">>,
           <<"t", "e", "n", "s", "o", "r", "f", "l", "o", "w">>,
           <<"p", "y", "t", "o", "r", "c", "h">>,
           <<"k", "e", "r", "a", "s">>,
           <<"m", "a", "t", "p", "l", "o", "t", "l", "i", "b">>,
           <<"s", "e", "a", "b", "o", "r", "n">>,
           <<"p", "l", "o", "t", "l", "y">>, <<"s", "p", "a", "r", "k">>,
           <<"h", "a", "d", "o", "o", "p">>,
           <<"t", "a", "b", "l", "e", "a", "u">>,
           <<"p", "o", "w", "e", "r", " ", "b", "i">>,
           <<"q", "l", "i", "k">>, <<"l", "o", "o", "k", "e", "r">>,
           <<"a", "i", "r", "f", "l", "o", "w">>,
           <<"k", "a", "f", "k", "a">>, <<"f", "l", "i", "n", "k">>,
           <<"s", "t", "o", "r", "m">>, <<"n", "l", "t", "k">>,
           <<"s", "p", "a", "c", "y">>, <<"o", "p", "e", "n", "c", "v">>,
           <<"x", "g", "b", "o", "o", "s", "t">>,
           <<"l", "i", "g", "h", "t", "g", "b", "m">> >>,
     devops |->
         << <<"g", "i", "t">>, <<"g", "i", "t", "h", "u", "b">>,
           <<"g", "i", "t", "l", "a", "b">>,
           <<"b", "i", "t", "b", "u", "c", "k", "e", "t">>,
           <<"j", "e", "n", "k", "i", "n", "s">>,
           <<"c", "i", "r", "c", "l", "e", "c", "i">>,
           <<"t", "r", "a", "v", "i", "s">>,
           <<"g", "i", "t", "h", "u", "b", " ", "a", "c", "t", "i", "o", "n", "s">>,
           <<"g", "i", "t", "l", "a", "b", " ", "c", "i">>,
           <<"a", "n", "s", "i", "b", "l", "e">>,
           <<"p", "u", "p", "p", "e", "t">>, <<"c", "h", "e", "f">>,
           <<"s", "a", "l", "t", "s", "t", "a", "c", "k">>,
           <<"p", "r", "o", "m", "e", "t", "h", "e", "u", "s">>,
           <<"g", "r", "a", "f", "a", "n", "a">>,
           <<"d", "a", "t", "a", "d", "o", "g">>,
           <<"n", "e", "w", " ", "r", "e", "l", "i", "c">>,
           <<"s", "p", "l", "u", "n", "k">>,
           <<"e", "l", "k", " ", "s", "t", "a", "c", "k">> >>,
     testing |->
         << <<"j", "e", "s", "t">>, <<"m", "o", "c", "h", "a">>,
           <<"c", "h", "a", "i">>, <<"p", "y", "t", "e", "s", "t">>,
           <<"u", "n", "i", "t", "t", "e", "s", "t">>,
           <<"s", "e", "l", "e", "n", "i", "u", "m">>,
           <<"c", "y", "p", "r", "e", "s", "s">>,
           <<"p", "l", "a", "y", "w", "r", "i", "g", "h", "t">>,
           <<"j", "u", "n", "i", "t">>, <<"t", "e", "s", "t", "n", "g">>,
           <<"p", "o", "s", "t", "m", "a", "n">>,
           <<"s", "o", "a", "p", "u", "i">>, <<"k", "a", "r", "m", "a">>,
           <<"q", "u", "n", "i", "t">> >>,
     mobile |->
         << <<"r", "e", "a", "c", "t", " ", "n", "a", "t", "i", "v", "e">>,
           <<"f", "l", "u", "t", "t", "e", "r">>,
           <<"x", "a", "m", "a", "r", "i", "n">>,
           <<"i", "o", "n", "i", "c">>,
           <<"c", "o", "r", "d", "o", "v", "a">>,
           <<"a", "n", "d", "r", "o", "i", "d">>, <<"i", "o", "s">>,
           <<"s", "w", "i", "f", "t", "u", "i">>,
           <<"j", "e", "t", "p", "a", "c", "k", " ", "c", "o", "m", "p", "o", "s", "e">>,
           <<"k", "o", "t", "l", "i", "n", " ", "m", "u", "l", "t", "i", "p", "l", "a", "t", "f", "o", "r", "m">> >>]

\* the branch of the if/elif chain that a category takes
BucketOf(category) ==
    IF category = "programming" THEN "languages"
    ELSE IF category = "web_frameworks" THEN "frameworks"
    ELSE IF category \in {"databases", "cloud", "data_science", "devops"} THEN "tools"
    ELSE "technical"

\* for category, skills_list in self.skills_database.items():
\*     for skill in skills_list: the pairs in the order of the two loops
TaxonomyEntries ==
    Concat([c \in 1..Len(skill_categories) |->
               [k \in 1..Len(skills_database[skill_categories[c]]) |->
                   [category |-> skill_categories[c],
                    skill |-> skills_database[skill_categories[c]][k]]]])

\* the pairs whose `skill in text` holds, in the order of the appends
SubstringHits(text) ==
    SelectSeq(TaxonomyEntries, LAMBDA entry : Contains(entry.skill, text))

\* the list that the appends of a loop leave in a bucket
BucketList(hits, bucket) ==
    TheOne({<<>> \o [k \in 1..Len(kept) |-> kept[k].skill] :
               kept \in {SelectSeq(hits, LAMBDA entry : BucketOf(entry.category) = bucket)}})

\* the characters of the terms in the order of their code points
CodePointOrder ==
    <<" ", "#", "+", "-", ".", "2", "3", "4", "a", "b", "c", "d", "e", "f", "g", "h", "i", "j", "k", "l", "m", "n", "o", "p", "q", "r", "s", "t", "u", "v", "w", "x", "y", "z">>

Ord(c) ==
    CHOOSE i \in 1..Len(CodePointOrder) : CodePointOrder[i] = c

\* a < b on two strings
StrLess(a, b) ==
    \E k \in 1..(Len(b)) :
        /\ \A m \in 1..(k - 1) : m <= Len(a) /\ a[m] = b[m]
        /\ k > Len(a) \/ (k - 1 < Len(a) /\ Ord(a[k]) < Ord(b[k]))

\* sorted(list(set(list)))
SortedSet(list) ==
    TheOne({<<>> \o [k \in 1..Cardinality(terms) |->
                        CHOOSE t \in terms :
                            Cardinality({o \in terms : StrLess(o, t)}) = k - 1]
               : terms \in {SeqToSet(list)}})

\* the five lists of the function
NoSkillLists ==
    [technical |-> <<>>, soft |-> <<>>, tools |-> <<>>, frameworks |-> <<>>,
     languages |-> <<>>]

SkillLists(hits) ==
    [technical |-> BucketList(hits, "technical"), soft |-> <<>>,
     tools |-> BucketList(hits, "tools"),
     frameworks |-> BucketList(hits, "frameworks"),
     languages |-> BucketList(hits, "languages")]

\* not technical_skills and not tools and not frameworks and not languages
NothingFound(lists) ==
    lists.technical = <<>> /\ lists.tools = <<>> /\ lists.frameworks = <<>>
        /\ lists.languages = <<>>

\* the pass of the loop over the categories for one noun chunk, from
\* category c on: the chunk is appended to the list of every category
\* that has it, unless technical_skills holds it by then
RECURSIVE ChunkPass(_, _, _)
ChunkPass(lists, skill_text, c) ==
    IF c > Len(skill_categories) THEN lists
    ELSE TheOne({ChunkPass(next, skill_text, d) :
                    d \in {c + 1},
                    next \in
                        {TheOne({IF /\ skill_text \in SeqToSet(skills_database[category])
                                    /\ skill_text \notin SeqToSet(lists.technical)
                                 THEN [lists EXCEPT ![BucketOf(category)] =
                                                        Append(@, skill_text)]
                                 ELSE lists
                                 : category \in {skill_categories[c]}})}})

\* for chunk in doc.noun_chunks, from chunk k on
RECURSIVE ChunkLoop(_, _, _)
ChunkLoop(lists, noun_chunks, k) ==
    IF k > Len(noun_chunks) THEN lists
    ELSE TheOne({ChunkLoop(next, noun_chunks, j) :
                    j \in {k + 1},
                    next \in {ChunkPass(lists, Strip(Lower(noun_chunks[k])), 1)}})

\* Skills(...) of the lists, each deduplicated and sorted
Skills(lists) ==
    [technical |-> SortedSet(lists.technical), soft |-> SortedSet(lists.soft),
     tools |-> SortedSet(lists.tools), frameworks |-> SortedSet(lists.frameworks),
     languages |-> SortedSet(lists.languages)]

\* the text of a span: '\n'.join(lines[start:end])
SectionText(lines, span) ==
    Join(SubSeq(lines, span.start, span.end - 1), <<"\n">>)

\* _extract_skills(raw_text, doc): doc is None ({}) when no spaCy model is
\* loaded, else it gives the noun chunks that spaCy finds
_extract_skills(lines, doc) ==
    TheOne({Skills(IF ~NothingFound(in_section) THEN in_section
                   ELSE TheOne({IF ~NothingFound(in_chunks) THEN in_chunks
                                ELSE SkillLists(SubstringHits(Lower(Join(lines, <<"\n">>))))
                                : in_chunks \in
                                    {IF doc = {} THEN NoSkillLists
                                     ELSE ChunkLoop(NoSkillLists, TheOne(doc), 1)}}))
               : in_section \in
                   {TheOne({IF skills_section = {} THEN NoSkillLists
                            ELSE SkillLists(SubstringHits(
                                     Lower(SectionText(lines, TheOne(skills_section)))))
                            : skills_section \in
                                {_extract_section(lines, skills_section_keywords)}})}})

l_JavascriptPandas ==
    <<"j", "a", "v", "a", "s", "c", "r", "i", "p", "t", ",", " ", "p", "a", "n", "d", "a", "s">>

l_DjangoJenkins ==
    <<"D", "j", "a", "n", "g", "o", ",", " ", "J", "e", "n", "k", "i", "n", "s">>

l_Pytest ==
    <<"P", "y", "t", "e", "s", "t">>

\* the lines of the texts given to the skills extractor
SkillLines ==
    {l_Skills, l_JavascriptPandas, l_DjangoJenkins, l_AcmeCorp}

\* a text of the skills extractor has at most this many lines
MaxSkillLines ==
    3

SkillDocuments ==
    UNION {[1..n -> SkillLines] : n \in 0..MaxSkillLines}

\* the noun chunks that spaCy may report, when a model is loaded
NounChunks ==
    {<<>>, <<l_Pytest>>, <<l_AcmeCorp, l_Pytest, l_Pytest>>}

SpacyDocs ==
    {{}} \cup {{noun_chunks} : noun_chunks \in NounChunks}

(* --------------- ComparisonService (comparison_service.py) ------------- *)
(* The coroutines of the service hold no await on anything that suspends,  *)
(* so each runs to its end once the event loop starts it; the tasks made   *)
(* with asyncio.create_task start in the order of their creation.          *)

ComparisonStatus ==
    {v_pending, v_processing, v_completed, v_failed}

\* the ATSScore that a run stores
SomeATSScore ==
    [overall_score |-> Q0]

e_resume_not_found ==
    <<"R", "e", "s", "u", "m", "e", " ", "n", "o", "t", " ", "f", "o", "u", "n", "d">>

e_data_not_found ==
    <<"R", "e", "s", "u", "m", "e", " ", "o", "r", " ", "j", "o", "b", " ", "d", "a", "t", "a", " ", "n", "o", "t", " ", "f", "o", "u", "n", "d">>

\* the ResumeJobComparison that create_comparison builds
PendingComparison ==
    [status |-> v_pending, ats_score |-> {}, completed_at |-> {},
     processing_time_seconds |-> {}, error_message |-> {}]

\* the record that create_batch_comparison builds for a resume whose
\* create_comparison raised
FailedComparison(clock) ==
    [status |-> v_failed, ats_score |-> {}, completed_at |-> {ClockDatetime(clock)},
     processing_time_seconds |-> {}, error_message |-> {e_resume_not_found}]

\* self._comparison_cache[comparison_id] = comparison
CacheSet(cache, comparison_id, comparison) ==
    [id \in DOMAIN cache \cup {comparison_id} |->
        IF id = comparison_id THEN comparison ELSE cache[id]]

\* _save_comparisons: json.dump has no default for the datetimes of a
\* comparison, so it raises once it reaches the first comparison and the
\* file keeps what was written before; the exception is printed
_save_comparisons(cache) ==
    IF DOMAIN cache = {} THEN "comparisons: []" ELSE "cut off"

\* the first lines of _process_comparison: the task returns when the cache
\* has no comparison of the id
TaskFindsComparison(cache, comparison_id) ==
    comparison_id \in DOMAIN cache

\* comparison.status = ComparisonStatus.PROCESSING
process_started(cache, comparison_id) ==
    [cache EXCEPT ![comparison_id].status = v_processing]

\* the rest of _process_comparison: the try block to its end, or the except
\* block when it raised
process_finished(cache, comparison_id, raised, clock) ==
    IF raised
    THEN [cache EXCEPT ![comparison_id].status = v_failed,
                       ![comparison_id].error_message = {e_data_not_found},
                       ![comparison_id].completed_at = {ClockDatetime(clock)}]
    ELSE [cache EXCEPT ![comparison_id].ats_score = {SomeATSScore},
                       ![comparison_id].status = v_completed,
                       ![comparison_id].completed_at = {ClockDatetime(clock)},
                       ![comparison_id].processing_time_seconds = {0}]

\* the reset of reprocess_comparison
reprocess_reset(cache, comparison_id) ==
    [cache EXCEPT ![comparison_id].status = v_pending,
                  ![comparison_id].ats_score = {},
                  ![comparison_id].error_message = {},
                  ![comparison_id].completed_at = {},
                  ![comparison_id].processing_time_seconds = {}]

\* del self._comparison_cache[comparison_id]
delete_kept(cache, comparison_id) ==
    cache

delete_comparison(cache, comparison_id) ==
    [id \in DOMAIN cache \ {comparison_id} |-> cache[id]]

\* the comparisons of a batch, from resume k on: resume_found[k] tells
\* whether get_parsed_data finds the resume
RECURSIVE BatchCache(_, _, _, _, _)
BatchCache(cache, resume_found, first_id, clock, k) ==
    IF k > Len(resume_found) THEN cache
    ELSE TheOne({BatchCache(next, resume_found, first_id, clock, j) :
                    j \in {k + 1},
                    next \in {CacheSet(cache, Uuid4(first_id + k - 1),
                                       IF resume_found[k] THEN PendingComparison
                                       ELSE FailedComparison(clock))}})

\* the tasks that the create_comparison calls of a batch make
BatchTasks(resume_found, first_id) ==
    TheOne({<<>> \o [n \in 1..Len(found) |-> Uuid4(first_id + found[n] - 1)] :
               found \in {<<>> \o Ascending({k \in 1..Len(resume_found) : resume_found[k]})}})

\* the service creates at most this many comparisons
MaxComparisons ==
    2

\* reprocess is called at most this many times
MaxReprocess ==
    2

ComparisonIds ==
    {Uuid4(n) : n \in 1..MaxComparisons}

\* the resume_ids of a batch request, as what get_parsed_data finds
BatchRequests ==
    UNION {[1..n -> BOOLEAN] : n \in 1..MaxComparisons}

NoComparisons ==
    <<>>

NoComparisonCall ==
    [op |-> "", comparison_id |-> 0, raised |-> "", returned |-> FALSE]

ComparisonCall(op, comparison_id, raised, returned) ==
    [op |-> op, comparison_id |-> comparison_id, raised |-> raised,
     returned |-> returned]

(* --------------------------- state machine ----------------------------- *)

VARIABLES
    now,          \* the wall clock: datetime.now()
    ats_pc,       \* "idle", "job" once the job is built, "scored" once scores are held
    ats_resume,   \* the resume of the call
    ats_job,      \* the job of the call
    ats_tfidf,    \* what the TF-IDF step of the call did
    scores,       \* the dict that calculate_ats_score builds and returns
    parse_pc,     \* "idle", "parsed" after one parse_resume, "reparsed" after two
    raw_text,     \* the text of the document being parsed
    parsed,       \* the parsed_data of the first parse_resume call
    reparsed,     \* the parsed_data of the second call on the same text
    file_pc,      \* "idle", "responded" while an endpoint's response is held
    files_metadata, \* file id -> Optional metadata entry (file_metadata.json)
    parsed_files, \* file id -> Optional JSON value of parsed_resumes/{id}.json
    saved_resumes,  \* file id -> Optional ParsedResume last given to save_parsed_data
    response,     \* the response of the endpoint that ran last
    entry_pc,     \* "idle", "parsed" while the Experience of an entry is held
    entry_lines,  \* the lines of the entry given to _parse_experience_entry
    parsed_entry, \* the Experience that _parse_experience_entry built
    jobs_file,    \* the content of jobs.json
    job_pc,       \* "idle", "returned" while the outcome of a call is held
    job_call,     \* the method of the JobService called last and its outcome
    uuids_drawn,  \* how many ids uuid4 has given
    jobs_bytes,   \* the bytes of jobs.json under concurrent create_job calls
    thread_pc,    \* thread -> "load", "open", "write" or "done"
    thread_depth, \* thread -> the depth of its nested load_jobs calls
    thread_data,  \* thread -> the job list that its load_jobs returned
    thread_result, \* thread -> what its create_job raised or returned
    section_pc,   \* "idle", "extracted" while the spans of a document are held
    section_lines, \* the lines of the document given to _extract_section
    spans,        \* kind of section -> Optional span of the document
    fallback_pc, \* "idle", "scanned" while the entries of a text are held
    fallback_lines, \* the lines of the text without an experience section
    fallback_experience, \* the list that _extract_experience_from_full_text returned
    skills_pc,   \* "idle", "extracted" while the Skills of a text are held
    skills_lines, \* the lines of the text given to _extract_skills
    skills_doc,  \* the spaCy doc of the text: {} when no model is loaded
    found_skills, \* the Skills that _extract_skills returned
    _comparison_cache, \* comparison id -> the comparison of the in-memory cache
    comparisons_file, \* what the last _save_comparisons left in comparisons.json
    comparison_tasks, \* the ids of the tasks created and not yet started, oldest first
    comparison_running, \* the id whose _process_comparison is between its two saves
    comparison_uuids, \* the number of comparison ids drawn
    reprocess_calls, \* the number of reprocess_comparison calls
    comparison_call, \* the last call of a client and how it ended
    deleted_ids, \* the ids for which delete_comparison returned True
    stale_tasks  \* the ids whose task found no comparison and returned

ats_vars ==
    <<ats_pc, ats_resume, ats_job, ats_tfidf, scores>>

parse_vars ==
    <<parse_pc, raw_text, parsed, reparsed>>

file_vars ==
    <<file_pc, files_metadata, parsed_files, saved_resumes, response>>

entry_vars ==
    <<entry_pc, entry_lines, parsed_entry>>

jobs_vars ==
    <<jobs_file, job_pc, job_call, uuids_drawn>>

thread_vars ==
    <<jobs_bytes, thread_pc, thread_depth, thread_data, thread_result>>

section_vars ==
    <<section_pc, section_lines, spans>>

fallback_vars ==
    <<fallback_pc, fallback_lines, fallback_experience>>

skills_vars ==
    <<skills_pc, skills_lines, skills_doc, found_skills>>

comparison_vars ==
    <<_comparison_cache, comparisons_file, comparison_tasks, comparison_running, comparison_uuids, reprocess_calls, comparison_call, deleted_ids, stale_tasks>>

\* the variables outside the scorer and the document parser
service_vars ==
    <<file_vars, entry_vars, jobs_vars, thread_vars, section_vars, fallback_vars, skills_vars, comparison_vars>>

\* everything but the file service's variables
outside_files ==
    <<now, ats_vars, parse_vars, entry_vars, jobs_vars, thread_vars, section_vars,
      fallback_vars,
      skills_vars,
      comparison_vars>>

\* everything but the entry parser's variables
outside_entry ==
    <<now, ats_vars, parse_vars, file_vars, jobs_vars, thread_vars, section_vars,
      fallback_vars,
      skills_vars,
      comparison_vars>>

\* everything but the job service's variables
outside_jobs ==
    <<now, ats_vars, parse_vars, file_vars, entry_vars, thread_vars, section_vars,
      fallback_vars,
      skills_vars,
      comparison_vars>>

\* everything but the variables of the section spans
outside_sections ==
    <<now, ats_vars, parse_vars, file_vars, entry_vars, jobs_vars, thread_vars,
      fallback_vars,
      skills_vars,
      comparison_vars>>

\* everything but the variables of the concurrent create_job calls
outside_threads ==
    <<now, ats_vars, parse_vars, file_vars, entry_vars, jobs_vars, section_vars,
      fallback_vars,
      skills_vars,
      comparison_vars>>

\* everything but the variables of the scan of the whole text
outside_fallback ==
    <<now, ats_vars, parse_vars, file_vars, entry_vars,
      jobs_vars, thread_vars, section_vars,
      skills_vars,
      comparison_vars>>

\* everything but the variables of the skills extractor
outside_skills ==
    <<now, ats_vars, parse_vars, file_vars, entry_vars,
      jobs_vars, thread_vars, section_vars, fallback_vars,
      comparison_vars>>

\* everything but the variables of the comparison service
outside_comparisons ==
    <<now, ats_vars, parse_vars, file_vars, entry_vars,
      jobs_vars, thread_vars, section_vars, fallback_vars, skills_vars>>

vars ==
    <<now, ats_pc, ats_resume, ats_job, ats_tfidf, scores,
      parse_pc, raw_text, parsed, reparsed,
      file_pc, files_metadata, parsed_files, saved_resumes, response,
      entry_pc, entry_lines, parsed_entry,
      jobs_file, job_pc, job_call, uuids_drawn,
      jobs_bytes, thread_pc, thread_depth, thread_data, thread_result,
      section_pc, section_lines, spans,
      fallback_pc, fallback_lines, fallback_experience,
      skills_pc, skills_lines, skills_doc, found_skills,
      _comparison_cache, comparisons_file, comparison_tasks, comparison_running, comparison_uuids, reprocess_calls, comparison_call, deleted_ids, stale_tasks>>

EmptyResume ==
    MkResume(MkSkills({}), <<>>, <<>>)

\* JobDescription(): every field at its default
DefaultJob ==
    MkJob(<<>>, {}, {}, None, <<>>, <<400, 300, 200, 100>>)

NoTfidf ==
    [raises |-> FALSE, similarity |-> Q0]

\* the dict as initialised at the head of calculate_ats_score
InitialScores ==
    [skills_score |-> Q0, experience_score |-> Q0, education_score |-> Q0,
     keywords_score |-> Q0, overall_score |-> Q0, breakdown |-> <<>>,
     matched_skills |-> {}, missing_skills |-> {}, keyword_matches |-> {},
     recommendations |-> <<>>]

InitialNow ==
    [year |-> 2024, month |-> 3, day |-> 15]

EmptyDocument ==
    [experience |-> <<>>, education |-> <<>>]

\* ParsedData(): every list empty
EmptyParsedData ==
    ParsedData(<<>>, <<>>)

Init ==
    /\ now = InitialNow
    /\ ats_pc = "idle"
    /\ ats_resume = EmptyResume
    /\ ats_job = DefaultJob
    /\ ats_tfidf = NoTfidf
    /\ scores = InitialScores
    /\ parse_pc = "idle"
    /\ raw_text = EmptyDocument
    /\ parsed = EmptyParsedData
    /\ reparsed = EmptyParsedData
    /\ file_pc = "idle"
    /\ files_metadata = [file_id \in FileIds |-> {}]
    /\ parsed_files = [file_id \in FileIds |-> {}]
    /\ saved_resumes = [file_id \in FileIds |-> {}]
    /\ response = NoResponse
    /\ entry_pc = "idle"
    /\ entry_lines = <<>>
    /\ parsed_entry = NoEntry
    /\ jobs_file = ensure_jobs_file(AbsentFile, InitialNow)
    /\ job_pc = "idle"
    /\ job_call = NoCall
    /\ uuids_drawn = 0
    /\ jobs_bytes = BytesOf(<<>>)
    /\ thread_pc = [t \in Threads |-> "load"]
    /\ thread_depth = [t \in Threads |-> 1]
    /\ thread_data = [t \in Threads |-> <<>>]
    /\ thread_result = [t \in Threads |-> NoResult]
    /\ section_pc = "idle"
    /\ section_lines = <<>>
    /\ spans = NoSpans
    /\ fallback_pc = "idle"
    /\ fallback_lines = <<>>
    /\ fallback_experience = NoExperience
    /\ skills_pc = "idle"
    /\ skills_lines = <<>>
    /\ skills_doc = {}
    /\ found_skills = NoSkillLists
    /\ _comparison_cache = NoComparisons
    /\ comparisons_file = "absent"
    /\ comparison_tasks = <<>>
    /\ comparison_running = {}
    /\ comparison_uuids = 0
    /\ reprocess_calls = 0
    /\ comparison_call = NoComparisonCall
    /\ deleted_ids = {}
    /\ stale_tasks = {}

\* JobDescription(...): the job is built and passes the validators
CreateJobDescription ==
    /\ ats_pc = "idle"
    /\ \E job \in JobCandidates :
          /\ validate_weights_sum(job)
          /\ ats_job' = job
    /\ ats_pc' = "job"
    /\ UNCHANGED <<now, ats_resume, ats_tfidf, scores, parse_vars, service_vars>>

\* one call of calculate_ats_score on a resume and the job
CalculateAtsScore ==
    /\ ats_pc = "job"
    /\ \E resume \in Resumes :
          \E tfidf \in TfidfOutcomes(JobText(ats_job), ResumeText(resume)) :
              /\ ats_resume' = resume
              /\ ats_tfidf' = tfidf
              /\ scores' = calculate_ats_score(resume, ats_job, now.year, tfidf)
    /\ ats_pc' = "scored"
    /\ UNCHANGED <<now, ats_job, parse_vars, service_vars>>

\* the result is handed to the caller; the scorer keeps no state
ReturnScores ==
    /\ ats_pc = "scored"
    /\ ats_pc' = "idle"
    /\ ats_resume' = EmptyResume
    /\ ats_job' = DefaultJob
    /\ ats_tfidf' = NoTfidf
    /\ scores' = InitialScores
    /\ UNCHANGED <<now, parse_vars, service_vars>>

Next ==
    \/ CreateJobDescription
    \/ CalculateAtsScore
    \/ ReturnScores

Spec ==
    Init /\ [][Next]_vars

\* time passes on the wall clock
Tick ==
    /\ \E t \in ClockTimes :
          /\ DatetimeOrd(Datetime(t.year, t.month, t.day, 0))
                > DatetimeOrd(Datetime(now.year, now.month, now.day, 0))
          /\ now' = t
    /\ UNCHANGED <<ats_vars, parse_vars, service_vars>>

\* parse_resume on a document
ParseResume ==
    /\ parse_pc = "idle"
    /\ \E text \in Documents, ticking \in BOOLEAN :
          /\ raw_text' = text
          /\ parsed' = parse_resume(text, now, ticking)
    /\ parse_pc' = "parsed"
    /\ UNCHANGED <<now, ats_vars, reparsed, service_vars>>

\* parse_resume called once more on the identical text
ParseResumeAgain ==
    /\ parse_pc = "parsed"
    /\ \E ticking \in BOOLEAN :
          reparsed' = parse_resume(raw_text, now, ticking)
    /\ parse_pc' = "reparsed"
    /\ UNCHANGED <<now, ats_vars, raw_text, parsed, service_vars>>

\* both results are handed to the caller; the parser keeps no state
ReturnParsed ==
    /\ parse_pc = "reparsed"
    /\ parse_pc' = "idle"
    /\ raw_text' = EmptyDocument
    /\ parsed' = EmptyParsedData
    /\ reparsed' = EmptyParsedData
    /\ UNCHANGED <<now, ats_vars, service_vars>>

NextParse ==
    \/ Tick
    \/ ParseResume
    \/ ParseResumeAgain
    \/ ReturnParsed

SpecParse ==
    Init /\ [][NextParse]_vars

(* --------------- the file service and the parse endpoints --------------- *)

\* FileService.save_file: a new file id and its metadata entry
SaveFile ==
    /\ file_pc = "idle"
    /\ \E file_id \in FileIds :
          /\ files_metadata[file_id] = {}
          /\ files_metadata' =
                 [files_metadata EXCEPT ![file_id] = {NewFileMetadata(n_resume_pdf)}]
    /\ UNCHANGED <<outside_files, file_pc, parsed_files, saved_resumes,
                   response>>

\* FileService.update_file_status on a known file
UpdateFileStatus ==
    /\ file_pc = "idle"
    /\ \E file_id \in FileIds, status \in FileStatuses,
          error_message \in {{}, {e_missing_file_id}} :
          /\ files_metadata[file_id] # {}
          /\ files_metadata' =
                 [files_metadata EXCEPT ![file_id] =
                     {UpdatedFileMetadata(entry, status, error_message, now) :
                          entry \in files_metadata[file_id]}]
    /\ UNCHANGED <<outside_files, file_pc, parsed_files, saved_resumes,
                   response>>

\* FileService.save_parsed_data(file_id, parsed_resume.model_dump())
SaveParsedData ==
    /\ file_pc = "idle"
    /\ \E file_id \in FileIds :
          \E resume \in ParsedResumes(file_id) :
              /\ parsed_files' =
                     [parsed_files EXCEPT ![file_id] =
                         {SavedJson(file_id, resume, files_metadata[file_id], now)}]
              /\ saved_resumes' = [saved_resumes EXCEPT ![file_id] = {resume}]
    /\ UNCHANGED <<outside_files, file_pc, files_metadata, response>>

\* FileService.delete_file on a known file: the parsed data goes with it
DeleteFile ==
    /\ file_pc = "idle"
    /\ \E file_id \in FileIds :
          /\ files_metadata[file_id] # {}
          /\ files_metadata' = [files_metadata EXCEPT ![file_id] = {}]
          /\ parsed_files' = [parsed_files EXCEPT ![file_id] = {}]
          /\ saved_resumes' = [saved_resumes EXCEPT ![file_id] = {}]
    /\ UNCHANGED <<outside_files, file_pc, response>>

\* POST /api/parse/single/{file_id}: parse_resume is called without its
\* file_id argument, so the call raises TypeError and the handler takes its
\* except branch
ParseSingleResume ==
    /\ file_pc = "idle"
    /\ \E file_id \in FileIds :
          IF files_metadata[file_id] = {}
          THEN /\ response' = HttpResponse("parse_single_resume", file_id, 404, {},
                                           h_FileNotFound)
               /\ UNCHANGED files_metadata
          ELSE /\ files_metadata' =
                      [files_metadata EXCEPT ![file_id] =
                          {UpdatedFileMetadata(processing, v_error,
                                               {e_missing_file_id}, now) :
                               processing \in
                                   {UpdatedFileMetadata(entry, v_processing, {}, now) :
                                        entry \in files_metadata[file_id]}}]
               /\ response' = HttpResponse("parse_single_resume", file_id, 500, {},
                                           h_ParsingFailed \o e_missing_file_id)
    /\ file_pc' = "responded"
    /\ UNCHANGED <<outside_files, parsed_files, saved_resumes>>

\* GET /api/parse/result/{file_id}
GetParsedResume ==
    /\ file_pc = "idle"
    /\ \E file_id \in FileIds :
          response' =
              IF parsed_files[file_id] = {}
              THEN HttpResponse("get_parsed_resume", file_id, 404, {},
                                h_ParsedDataNotFound)
              ELSE LET resumes == UNION {ParsedResumeFromJson(parsed_data) :
                                             parsed_data \in parsed_files[file_id]}
                   IN  IF resumes = {}
                       THEN HttpResponse("get_parsed_resume", file_id, 500, {},
                                         h_InternalServerError)
                       ELSE HttpResponse("get_parsed_resume", file_id, 200, resumes,
                                         <<>>)
    /\ file_pc' = "responded"
    /\ UNCHANGED <<outside_files, files_metadata, parsed_files,
                   saved_resumes>>

\* the response has gone to the client
ReturnResponse ==
    /\ file_pc = "responded"
    /\ file_pc' = "idle"
    /\ response' = NoResponse
    /\ UNCHANGED <<outside_files, files_metadata, parsed_files,
                   saved_resumes>>

NextFiles ==
    \/ SaveFile
    \/ UpdateFileStatus
    \/ SaveParsedData
    \/ DeleteFile
    \/ ParseSingleResume
    \/ GetParsedResume
    \/ ReturnResponse

SpecFiles ==
    Init /\ [][NextFiles]_vars

(* ------------------------ the entry parser ---------------------------- *)

\* one call of _parse_experience_entry on the text of an entry
ParseExperienceEntry ==
    /\ entry_pc = "idle"
    /\ \E lines \in EntryTexts :
          /\ entry_lines' = lines
          /\ parsed_entry' = _parse_experience_entry(lines)
    /\ entry_pc' = "parsed"
    /\ UNCHANGED outside_entry

\* the Experience is appended to the list of the caller
ReturnEntry ==
    /\ entry_pc = "parsed"
    /\ entry_pc' = "idle"
    /\ entry_lines' = <<>>
    /\ parsed_entry' = NoEntry
    /\ UNCHANGED outside_entry

NextEntry ==
    \/ ParseExperienceEntry
    \/ ReturnEntry

SpecEntry ==
    Init /\ [][NextEntry]_vars

(* ---------------------------- the job service -------------------------- *)

\* the jobs file is overwritten with bytes that are not JSON
CorruptJobsFile ==
    /\ job_pc = "idle"
    /\ jobs_file.kind # "invalid"
    /\ jobs_file' = InvalidJsonFile
    /\ UNCHANGED <<job_pc, job_call, uuids_drawn, outside_jobs>>

\* the jobs file is removed
RemoveJobsFile ==
    /\ job_pc = "idle"
    /\ jobs_file.kind # "absent"
    /\ jobs_file' = AbsentFile
    /\ UNCHANGED <<job_pc, job_call, uuids_drawn, outside_jobs>>

EnsureJobsFile ==
    /\ job_pc = "idle"
    /\ jobs_file' = ensure_jobs_file(jobs_file, now)
    /\ job_call' = Call("ensure_jobs_file", 0, <<>>, Outcome("", {}, jobs_file'))
    /\ job_pc' = "returned"
    /\ UNCHANGED <<uuids_drawn, outside_jobs>>

LoadJobs ==
    /\ job_pc = "idle"
    /\ \E outcome \in {load_jobs(jobs_file, now)} :
          /\ jobs_file' = outcome.file
          /\ job_call' = Call("load_jobs", 0, <<>>, outcome)
    /\ job_pc' = "returned"
    /\ UNCHANGED <<uuids_drawn, outside_jobs>>

CreateJob ==
    /\ job_pc = "idle"
    /\ uuids_drawn < MaxJobs
    /\ \E job_data \in JobCreates :
          \E outcome \in {create_job(jobs_file, job_data,
                                     Uuid4(uuids_drawn + 1), now)} :
              /\ jobs_file' = outcome.file
              /\ job_call' = Call("create_job", Uuid4(uuids_drawn + 1), <<>>, outcome)
    /\ uuids_drawn' = uuids_drawn + 1
    /\ job_pc' = "returned"
    /\ UNCHANGED outside_jobs

GetJob ==
    /\ job_pc = "idle"
    /\ \E job_id \in 1..(MaxJobs + 1) :
          \E outcome \in {get_job(jobs_file, job_id, now)} :
              /\ jobs_file' = outcome.file
              /\ job_call' = Call("get_job", job_id, <<>>, outcome)
    /\ job_pc' = "returned"
    /\ UNCHANGED <<uuids_drawn, outside_jobs>>

UpdateJob ==
    /\ job_pc = "idle"
    /\ \E job_id \in 1..(MaxJobs + 1), updates \in JobUpdates :
          \E outcome \in {update_job(jobs_file, job_id, updates, now)} :
              /\ jobs_file' = outcome.file
              /\ job_call' = Call("update_job", job_id, updates, outcome)
    /\ job_pc' = "returned"
    /\ UNCHANGED <<uuids_drawn, outside_jobs>>

DeleteJob ==
    /\ job_pc = "idle"
    /\ \E job_id \in 1..(MaxJobs + 1) :
          \E outcome \in {delete_job(jobs_file, job_id, now)} :
              /\ jobs_file' = outcome.file
              /\ job_call' = Call("delete_job", job_id, <<>>, outcome)
    /\ job_pc' = "returned"
    /\ UNCHANGED <<uuids_drawn, outside_jobs>>

\* the caller takes what the method raised or returned
ReturnJob ==
    /\ job_pc = "returned"
    /\ job_pc' = "idle"
    /\ job_call' = NoCall
    /\ UNCHANGED <<jobs_file, uuids_drawn, outside_jobs>>

NextJobs ==
    \/ Tick
    \/ CorruptJobsFile
    \/ RemoveJobsFile
    \/ EnsureJobsFile
    \/ LoadJobs
    \/ CreateJob
    \/ GetJob
    \/ UpdateJob
    \/ DeleteJob
    \/ ReturnJob

SpecJobs ==
    Init /\ [][NextJobs]_vars

(* -------------------- concurrent create_job calls ---------------------- *)

\* load_jobs of the thread reads the file: the data on success, else
\* ensure_jobs_file (the file exists, nothing is written) and a nested
\* load_jobs, until the depth of the calls reaches the recursion limit
ThreadLoad(t) ==
    /\ thread_pc[t] = "load"
    /\ IF IsJson(jobs_bytes)
       THEN /\ thread_data' = [thread_data EXCEPT ![t] = TheOne(jobs_bytes.text)]
            /\ thread_pc' = [thread_pc EXCEPT ![t] = "open"]
            /\ UNCHANGED <<thread_depth, thread_result>>
       ELSE IF thread_depth[t] + 1 > RecursionLimit
       THEN /\ thread_result' = [thread_result EXCEPT ![t] =
                                     [raised |-> "RecursionError", job_id |-> 0]]
            /\ thread_pc' = [thread_pc EXCEPT ![t] = "done"]
            /\ UNCHANGED <<thread_depth, thread_data>>
       ELSE /\ thread_depth' = [thread_depth EXCEPT ![t] = @ + 1]
            /\ UNCHANGED <<thread_pc, thread_data, thread_result>>
    /\ UNCHANGED <<jobs_bytes, outside_threads>>

\* the job of the thread is appended to its data and save_jobs opens the
\* file for writing
ThreadOpen(t) ==
    /\ thread_pc[t] = "open"
    /\ thread_data' = [thread_data EXCEPT ![t] = Append(@, Uuid4(t))]
    /\ jobs_bytes' = Truncated
    /\ thread_pc' = [thread_pc EXCEPT ![t] = "write"]
    /\ UNCHANGED <<thread_depth, thread_result, outside_threads>>

\* json.dump fills the buffer, the with block closes the file, and
\* create_job returns the job
ThreadWrite(t) ==
    /\ thread_pc[t] = "write"
    /\ jobs_bytes' = WrittenOver(jobs_bytes, thread_data[t])
    /\ thread_result' = [thread_result EXCEPT ![t] =
                             [raised |-> "", job_id |-> Uuid4(t)]]
    /\ thread_pc' = [thread_pc EXCEPT ![t] = "done"]
    /\ UNCHANGED <<thread_depth, thread_data, outside_threads>>

NextThreads ==
    \E t \in Threads :
        \/ ThreadLoad(t)
        \/ ThreadOpen(t)
        \/ ThreadWrite(t)

SpecThreads ==
    Init /\ [][NextThreads]_vars

(* ------------------------ the section spans --------------------------- *)

\* the extractors of one parse ask for the sections of the document
ExtractSections ==
    /\ section_pc = "idle"
    /\ \E lines \in SectionDocuments :
          /\ section_lines' = lines
          /\ spans' = SectionSpans(lines)
    /\ section_pc' = "extracted"
    /\ UNCHANGED outside_sections

\* the sections have gone to the entry splitters
ReturnSections ==
    /\ section_pc = "extracted"
    /\ section_pc' = "idle"
    /\ section_lines' = <<>>
    /\ spans' = NoSpans
    /\ UNCHANGED outside_sections

NextSections ==
    \/ ExtractSections
    \/ ReturnSections

SpecSections ==
    Init /\ [][NextSections]_vars

(* ------------- actions: the scan of the whole text --------------------- *)

\* _extract_experience on a text in which _extract_section finds no
\* experience section: the list is that of the scan of the whole text (the
\* sort that follows reorders it)
ExtractExperienceFromFullText ==
    /\ fallback_pc = "idle"
    /\ \E lines \in FallbackDocuments :
          /\ fallback_lines' = lines
          /\ fallback_experience' = _extract_experience_from_full_text(lines)
    /\ fallback_pc' = "scanned"
    /\ UNCHANGED outside_fallback

\* the list has gone into the ParsedData
ReturnExperience ==
    /\ fallback_pc = "scanned"
    /\ fallback_pc' = "idle"
    /\ fallback_lines' = <<>>
    /\ fallback_experience' = NoExperience
    /\ UNCHANGED outside_fallback

NextFallback ==
    \/ ExtractExperienceFromFullText
    \/ ReturnExperience

SpecFallback ==
    Init /\ [][NextFallback]_vars

(* ------------------- actions: the skills extractor --------------------- *)

ExtractSkills ==
    /\ skills_pc = "idle"
    /\ \E lines \in SkillDocuments, doc \in SpacyDocs :
          /\ skills_lines' = lines
          /\ skills_doc' = doc
          /\ found_skills' = _extract_skills(lines, doc)
    /\ skills_pc' = "extracted"
    /\ UNCHANGED outside_skills

\* the Skills have gone into the ParsedData
ReturnSkills ==
    /\ skills_pc = "extracted"
    /\ skills_pc' = "idle"
    /\ skills_lines' = <<>>
    /\ skills_doc' = {}
    /\ found_skills' = NoSkillLists
    /\ UNCHANGED outside_skills

NextSkills ==
    \/ ExtractSkills
    \/ ReturnSkills

SpecSkills ==
    Init /\ [][NextSkills]_vars

(* ------------------- actions: the comparison service ------------------- *)

\* create_comparison(resume_id, job_id) to its return
CreateComparison ==
    /\ comparison_running = {}
    /\ comparison_uuids < MaxComparisons
    /\ \E resume_found, job_found \in BOOLEAN :
          IF resume_found /\ job_found
          THEN \E comparison_id \in {Uuid4(comparison_uuids + 1)} :
                  \E cache \in {CacheSet(_comparison_cache, comparison_id,
                                         PendingComparison)} :
                     /\ _comparison_cache' = cache
                     /\ comparisons_file' = _save_comparisons(cache)
                     /\ comparison_tasks' = Append(comparison_tasks, comparison_id)
                     /\ comparison_uuids' = comparison_uuids + 1
                     /\ comparison_call' = ComparisonCall("create_comparison",
                                                          comparison_id, "", TRUE)
          ELSE /\ comparison_call' = ComparisonCall("create_comparison", 0,
                                                    "ValueError", FALSE)
               /\ UNCHANGED <<_comparison_cache, comparisons_file, comparison_tasks,
                              comparison_uuids>>
    /\ UNCHANGED <<comparison_running, reprocess_calls, deleted_ids, stale_tasks>>
    /\ UNCHANGED outside_comparisons

\* create_batch_comparison(request) to its return; the batch_id is a uuid
\* of its own
CreateBatchComparison ==
    /\ comparison_running = {}
    /\ \E job_found \in BOOLEAN, resume_found \in BatchRequests :
          /\ comparison_uuids + Len(resume_found) <= MaxComparisons
          /\ IF job_found
             THEN \E cache \in {BatchCache(_comparison_cache, resume_found,
                                           comparison_uuids + 1, now, 1)} :
                     /\ _comparison_cache' = cache
                     /\ comparisons_file' = _save_comparisons(cache)
                     /\ comparison_tasks' =
                            comparison_tasks \o BatchTasks(resume_found,
                                                           comparison_uuids + 1)
                     /\ comparison_uuids' = comparison_uuids + Len(resume_found)
                     /\ comparison_call' = ComparisonCall("create_batch_comparison",
                                                          0, "", TRUE)
             ELSE /\ comparison_call' = ComparisonCall("create_batch_comparison", 0,
                                                       "ValueError", FALSE)
                  /\ UNCHANGED <<_comparison_cache, comparisons_file,
                                 comparison_tasks, comparison_uuids>>
    /\ UNCHANGED <<comparison_running, reprocess_calls, deleted_ids, stale_tasks>>
    /\ UNCHANGED outside_comparisons

\* the event loop starts the oldest task: _process_comparison to its first
\* _save_comparisons, or to its return when the comparison is gone
ProcessComparisonStart ==
    /\ comparison_running = {}
    /\ comparison_tasks # <<>>
    /\ \E comparison_id \in {Head(comparison_tasks)} :
          IF TaskFindsComparison(_comparison_cache, comparison_id)
          THEN \E cache \in {process_started(_comparison_cache, comparison_id)} :
                  /\ _comparison_cache' = cache
                  /\ comparisons_file' = _save_comparisons(cache)
                  /\ comparison_running' = {comparison_id}
                  /\ UNCHANGED stale_tasks
          ELSE /\ stale_tasks' = stale_tasks \cup {comparison_id}
               /\ UNCHANGED <<_comparison_cache, comparisons_file, comparison_running>>
    /\ comparison_tasks' = Tail(comparison_tasks)
    /\ UNCHANGED <<comparison_uuids, reprocess_calls, comparison_call, deleted_ids>>
    /\ UNCHANGED outside_comparisons

\* the same run goes on to its end: the score is stored, or an exception
\* of the try block is
ProcessComparisonFinish ==
    /\ comparison_running # {}
    /\ \E comparison_id \in comparison_running, raised \in BOOLEAN :
          \E cache \in {process_finished(_comparison_cache, comparison_id,
                                         raised, now)} :
             /\ _comparison_cache' = cache
             /\ comparisons_file' = _save_comparisons(cache)
    /\ comparison_running' = {}
    /\ UNCHANGED <<comparison_tasks, comparison_uuids, reprocess_calls,
                   comparison_call, deleted_ids, stale_tasks>>
    /\ UNCHANGED outside_comparisons

\* POST /api/comparisons/reprocess/{comparison_id}
ReprocessComparison ==
    /\ comparison_running = {}
    /\ reprocess_calls < MaxReprocess
    /\ \E comparison_id \in ComparisonIds :
          IF comparison_id \in DOMAIN _comparison_cache
          THEN \E cache \in {reprocess_reset(_comparison_cache, comparison_id)} :
                  /\ _comparison_cache' = cache
                  /\ comparisons_file' = _save_comparisons(cache)
                  /\ comparison_tasks' = Append(comparison_tasks, comparison_id)
                  /\ comparison_call' = ComparisonCall("reprocess_comparison",
                                                       comparison_id, "", TRUE)
          ELSE /\ comparison_call' = ComparisonCall("reprocess_comparison",
                                                    comparison_id, "HTTPException",
                                                    FALSE)
               /\ UNCHANGED <<_comparison_cache, comparisons_file, comparison_tasks>>
    /\ reprocess_calls' = reprocess_calls + 1
    /\ UNCHANGED <<comparison_running, comparison_uuids, deleted_ids, stale_tasks>>
    /\ UNCHANGED outside_comparisons

\* delete_comparison(comparison_id)
DeleteComparison ==
    /\ comparison_running = {}
    /\ \E comparison_id \in ComparisonIds :
          IF comparison_id \in DOMAIN _comparison_cache
          THEN \E cache \in {delete_comparison(_comparison_cache, comparison_id)} :
                  /\ _comparison_cache' = cache
                  /\ comparisons_file' = _save_comparisons(cache)
                  /\ deleted_ids' = deleted_ids \cup {comparison_id}
                  /\ comparison_call' = ComparisonCall("delete_comparison",
                                                       comparison_id, "", TRUE)
          ELSE /\ comparison_call' = ComparisonCall("delete_comparison",
                                                    comparison_id, "", FALSE)
               /\ UNCHANGED <<_comparison_cache, comparisons_file, deleted_ids>>
    /\ UNCHANGED <<comparison_tasks, comparison_running, comparison_uuids,
                   reprocess_calls, stale_tasks>>
    /\ UNCHANGED outside_comparisons

NextComparisons ==
    \/ CreateComparison
    \/ CreateBatchComparison
    \/ ProcessComparisonStart
    \/ ProcessComparisonFinish
    \/ ReprocessComparison
    \/ DeleteComparison

SpecComparisons ==
    Init /\ [][NextComparisons]_vars

\* the event loop runs every task that was created
SpecComparisonsScheduled ==
    /\ SpecComparisons
    /\ WF_vars(ProcessComparisonStart)
    /\ WF_vars(ProcessComparisonFinish)

(* ------------------------------- claims -------------------------------- *)

Scored ==
    ats_pc = "scored"

\* C1: for every resume and every job that validation accepts, the
\* overall_score returned by calculate_ats_score lies in [0, 100].
C1_OverallScoreInRange ==
    Scored => QLe(Q0, scores.overall_score) /\ QLe(scores.overall_score, Q100)

\* C2: when the job's level asks for required_years > 0, experience_score is
\* min(relevant/required, 1) * 80 plus a bonus in [0, 20], clamped to 100, and
\* a resume whose relevant years are below the requirement scores below 100.
C2_ExperienceScoreFormula ==
    Scored /\ scores.breakdown.experience.details.required_years > 0 =>
        LET details == scores.breakdown.experience.details
            required == QInt(details.required_years)
            base == QMul(QMin(QDiv(details.relevant_experience, required), QInt(1)), QInt(80))
        IN  /\ QLe(QMin(base, Q100), scores.experience_score)
            /\ QLe(scores.experience_score, QMin(QAdd(base, QInt(20)), Q100))
            /\ QLt(details.relevant_experience, required) => QLt(scores.experience_score, Q100)

\* a required skill of the job occurs in the resume, compared without case
OccursInResume(skill, resume) ==
    \E s \in SeqToSet(AllSkills(resume)) : Lower(s) = Lower(skill)

\* C3: if every required skill occurs (case-insensitively) among the resume's
\* five buckets and the job lists no preferred skill, skills_score is exactly
\* 100 and matched_skills holds every required skill in lower case; if the job
\* lists neither required nor preferred skills, skills_score is 100.
C3_AllRequiredPresentScores100 ==
    Scored /\ ats_job.preferred_skills = <<>>
           /\ (\A r \in SeqToSet(ats_job.required_skills) : OccursInResume(r, ats_resume)) =>
        /\ scores.skills_score = Q100
        /\ \A r \in SeqToSet(ats_job.required_skills) : Lower(r) \in scores.matched_skills

C3_Witness ==
    /\ Scored
    /\ ats_job.preferred_skills = <<>>
    /\ Len(ats_job.required_skills) = 1
    /\ \A r \in SeqToSet(ats_job.required_skills) :
          OccursInResume(r, ats_resume) /\ r \notin SeqToSet(AllSkills(ats_resume))
    /\ scores.skills_score = Q100
    /\ scores.matched_skills # {}

NoRequirements(job) ==
    /\ job.required_skills = <<>>
    /\ job.preferred_skills = <<>>
    /\ job.experience_level \in {None, "entry"}
    /\ job.education_requirements = <<>>

\* C4: for a job with no required and no preferred skills, an absent or
\* 'entry' experience level and no education requirements, skills_score,
\* experience_score and education_score are each exactly 100 for every resume.
C4_NoRequirementScores100 ==
    Scored /\ NoRequirements(ats_job) =>
        /\ scores.skills_score = Q100
        /\ scores.experience_score = Q100
        /\ scores.education_score = Q100

C4_Witness ==
    /\ Scored
    /\ NoRequirements(ats_job)
    /\ ats_job.experience_level = "entry"
    /\ ats_resume = EmptyResume
    /\ scores.experience_score = Q100

\* C5: if the TF-IDF vectorization raises, the keywords score is exactly 50,
\* keyword_matches is empty, and the result is complete: the other three
\* sub-scores are those of their sub-scorers and enter overall_score.
C5_TfidfFailureFallsBackTo50 ==
    Scored /\ ats_tfidf.raises =>
        /\ scores.keywords_score = QInt(50)
        /\ scores.keyword_matches = {}
        /\ scores.skills_score = _calculate_skills_match(ats_resume, ats_job).score
        /\ scores.experience_score = _calculate_experience_match(ats_resume, ats_job, now.year).score
        /\ scores.education_score = _calculate_education_match(ats_resume, ats_job).score
        /\ scores.overall_score =
              QAdd(QAdd(QAdd(QMul(scores.skills_score, ats_job.weight_skills),
                             QMul(scores.experience_score, ats_job.weight_experience)),
                        QMul(scores.education_score, ats_job.weight_education)),
                   QMul(QInt(50), ats_job.weight_keywords))
        /\ DOMAIN scores = DOMAIN InitialScores

C5_Witness ==
    /\ Scored
    /\ ats_tfidf.raises
    /\ Vocabulary(JobText(ats_job)) \cap Vocabulary(ResumeText(ats_resume)) # {}
    /\ scores.keywords_score = QInt(50)
    /\ QLt(scores.skills_score, Q100)

\* C6: whenever skills_score is below 70 and a required or preferred skill is
\* missing, the recommendations hold a skills recommendation that names
\* missing skills, at most five of them.
C6_MissingSkillsRecommended ==
    Scored /\ QLt(scores.skills_score, QInt(70)) /\ scores.missing_skills # {} =>
        \E i \in 1..Len(scores.recommendations) :
            /\ scores.recommendations[i].about = "skills"
            /\ scores.recommendations[i].names # {}
            /\ scores.recommendations[i].names \subseteq scores.missing_skills
            /\ Cardinality(scores.recommendations[i].names) <= 5

\* the education score of the call's job for a resume holding the degrees
EducationScoreOf(degrees) ==
    _calculate_education_match(
        MkResume(MkSkills({}), <<>>, [i \in 1..Len(degrees) |-> MkEducation(degrees[i])]),
        ats_job).score

DegreesOf(resume) ==
    [i \in 1..Len(resume.parsed_data.education) |-> resume.parsed_data.education[i].degree]

LevelOfDegrees(degrees) ==
    MaxOf({LevelIn(Lower(degrees[i])) : i \in 1..Len(degrees)})

\* the four cases of the education score, on the levels of the call
C7_EducationCases ==
    LET required_level == RequiredLevel(ats_job.education_requirements)
        resume_level == ResumeLevel(ats_resume.parsed_data.education)
    IN  /\ required_level = 0 => scores.education_score = Q100
        /\ required_level > 0 /\ resume_level >= required_level =>
               scores.education_score = Q100
        /\ 0 < resume_level /\ resume_level < required_level =>
               scores.education_score = QMul(Q(resume_level, required_level), QInt(70))
        /\ required_level > 0 /\ resume_level = 0 =>
               scores.education_score = QInt(20)

\* C7 as stated: the four cases hold, and the score never decreases when the
\* resume's level increases.
C7_EducationMonotoneInLevel ==
    Scored =>
        /\ C7_EducationCases
        /\ \A degrees \in SeqsUpTo(DegreePool, 1) :
               LevelOfDegrees(degrees) >= LevelOfDegrees(DegreesOf(ats_resume)) =>
                   QLe(scores.education_score, EducationScoreOf(degrees))

\* C7 as amended: the four cases hold, and the score never decreases when the
\* resume's level increases from a level of at least 1.
C7_EducationMonotoneAboveLevelZero ==
    Scored =>
        /\ C7_EducationCases
        /\ \A degrees \in SeqsUpTo(DegreePool, 1) :
               (/\ LevelOfDegrees(DegreesOf(ats_resume)) >= 1
                /\ LevelOfDegrees(degrees) >= LevelOfDegrees(DegreesOf(ats_resume))) =>
                   QLe(scores.education_score, EducationScoreOf(degrees))

C7_Witness ==
    /\ Scored
    /\ RequiredLevel(ats_job.education_requirements) = 4
    /\ ResumeLevel(ats_resume.parsed_data.education) = 1
    /\ scores.education_score = Q(35, 2)
    /\ EducationScoreOf(<<g_Bachelor>>) = Q(105, 2)

\* C8: overall_score is the sum of the four weighted_score values; each
\* weighted_score is the component's score times the job's own weight, each
\* breakdown score is the top-level component score, and each breakdown
\* weight is the job weight as a percentage.
C8_OverallIsSumOfWeightedScores ==
    Scored =>
        LET b == scores.breakdown
        IN  /\ scores.overall_score =
                  QAdd(QAdd(QAdd(b.skills.weighted_score, b.experience.weighted_score),
                            b.education.weighted_score), b.keywords.weighted_score)
            /\ b.skills.weighted_score = QMul(b.skills.score, ats_job.weight_skills)
            /\ b.experience.weighted_score = QMul(b.experience.score, ats_job.weight_experience)
            /\ b.education.weighted_score = QMul(b.education.score, ats_job.weight_education)
            /\ b.keywords.weighted_score = QMul(b.keywords.score, ats_job.weight_keywords)
            /\ b.skills.score = scores.skills_score
            /\ b.experience.score = scores.experience_score
            /\ b.education.score = scores.education_score
            /\ b.keywords.score = scores.keywords_score
            /\ b.skills.weight = QMul(ats_job.weight_skills, Q100)
            /\ b.experience.weight = QMul(ats_job.weight_experience, Q100)
            /\ b.education.weight = QMul(ats_job.weight_education, Q100)
            /\ b.keywords.weight = QMul(ats_job.weight_keywords, Q100)

C8_Witness ==
    /\ Scored
    /\ ats_job.weight_skills = Q(505, 1000)
    /\ QLt(Q0, scores.skills_score)
    /\ QLt(scores.skills_score, Q100)
    /\ QLt(scores.education_score, Q100)
    /\ QLt(Q0, scores.overall_score)

\* the resume with every skill changed by Case (Upper or Lower)
Recased(resume, Case(_)) ==
    LET skills == resume.parsed_data.skills
        Each(bucket) == [i \in 1..Len(bucket) |-> Case(bucket[i])]
    IN  MkResume([technical |-> Each(skills.technical), soft |-> Each(skills.soft),
                  tools |-> Each(skills.tools), frameworks |-> Each(skills.frameworks),
                  languages |-> Each(skills.languages)],
                 resume.parsed_data.experience, resume.parsed_data.education)

SameSkillsResult(skills_result) ==
    /\ skills_result.score = scores.skills_score
    /\ skills_result.matched = scores.matched_skills
    /\ skills_result.missing = scores.missing_skills

\* C9: for any job, two resumes whose skill lists differ only in the case of
\* their letters get the same skills_score, matched_skills and missing_skills.
C9_SkillsMatchIgnoresCase ==
    Scored =>
        /\ SameSkillsResult(_calculate_skills_match(Recased(ats_resume, Upper), ats_job))
        /\ SameSkillsResult(_calculate_skills_match(Recased(ats_resume, Lower), ats_job))

C9_Witness ==
    /\ Scored
    /\ Recased(ats_resume, Upper) # ats_resume
    /\ Recased(ats_resume, Lower) # ats_resume
    /\ scores.matched_skills # {}
    /\ scores.missing_skills # {}
    /\ QLt(Q0, scores.skills_score)

\* C10: two parse_resume calls on identical raw text, made at any two times,
\* yield identical parsed entities; none depends on the current clock.
C10_ParseIsDeterministic ==
    parse_pc = "reparsed" => reparsed = parsed

\* C20: the partial (substring) match is applied only to job skills that
\* were not matched exactly, so each required or preferred skill adds at most
\* 1 to its coverage numerator and exact + 0.5 x partial never exceeds total.
C20_PartialOnlyForUnmatched ==
    Scored =>
        LET details == scores.breakdown.skills.details
        IN  /\ 2 * details.required_matches + details.required_partial
                  <= 2 * details.total_required
            /\ 2 * details.preferred_matches + details.preferred_partial
                  <= 2 * details.total_preferred

Responded(endpoint) ==
    file_pc = "responded" /\ response.endpoint = endpoint

\* C11: a ParsedResume given to save_parsed_data and read back through
\* get_parsed_data and ParsedResume(...) is returned, and is equal to the
\* original field for field, the status included.
C11_SaveThenGetRoundTrip ==
    (Responded("get_parsed_resume") /\ saved_resumes[response.file_id] # {}) =>
        /\ response.status_code = 200
        /\ response.body = saved_resumes[response.file_id]

JustParsed ==
    \/ parse_pc = "idle" /\ parse_pc' = "parsed"
    \/ parse_pc = "parsed" /\ parse_pc' = "reparsed"

NewlyParsed ==
    IF parse_pc' = "parsed" THEN parsed' ELSE reparsed'

\* the experience extraction of the document raises
ExperienceRaises(document) ==
    \E ticking \in BOOLEAN : _extract_experience(document.experience, now, ticking).raised

\* C13: when the extraction of one entity raises during parse_resume, the
\* parse still returns a ParsedResume, with that entity omitted and the other
\* entities as extracted; the exception never aborts the parse.
C13_ExtractorFailureOmitsEntity ==
    [][(JustParsed /\ ExperienceRaises(raw_text')) =>
           /\ ~NewlyParsed.raised
           /\ NewlyParsed.experience = <<>>]_vars

\* the date part of the sort key of a start date at a reading of the clock
StartDateOrd(entry, clock) ==
    DatetimeOrd(_parse_date_for_sorting(entry.start_date, ClockRead(clock, 0, FALSE)))
        \div 100

\* the start date is missing or cannot be parsed
Undated(entry, clock) ==
    _parse_date_for_sorting(entry.start_date, ClockRead(clock, 0, FALSE)) = DatetimeMin

OrderedByStartDate(experience, clock) ==
    \A i, j \in 1..Len(experience) :
        i < j =>
            /\ StartDateOrd(experience[i], clock) >= StartDateOrd(experience[j], clock)
            /\ Undated(experience[i], clock) => Undated(experience[j], clock)

\* C15: the list that _extract_experience returns is in non-increasing order
\* of the parsed start dates, and the entries whose start date is missing or
\* unparsable come after every entry with a parsable one.
C15_ExperienceSortedByStartDate ==
    [][(JustParsed /\ ~NewlyParsed.raised) =>
           OrderedByStartDate(NewlyParsed.experience, now)]_vars

C15_Witness ==
    /\ parse_pc = "parsed"
    /\ ~parsed.raised
    /\ Len(parsed.experience) = 2
    /\ parsed.experience # raw_text.experience
    /\ parsed.experience[1].start_date = d_Jun15_2019
    /\ parsed.experience[2].start_date = <<>>

\* the sentinels that stand for an open end date
IsSentinel(end_date) ==
    Lower(end_date) \in {m_present, m_current}

\* C14: every Experience that _parse_experience_entry produces with
\* is_current true has an end_date that is empty or a 'present'/'current'
\* sentinel, never a literal date.
C14_CurrentHasNoLiteralEndDate ==
    (entry_pc = "parsed" /\ parsed_entry.is_current) =>
        parsed_entry.end_date = <<>> \/ IsSentinel(parsed_entry.end_date)

\* a call of the method has returned or raised and its outcome is held
Returned(op) ==
    job_pc = "returned" /\ job_call.op = op

\* C16: get_job called with an id that no job of the store has (never
\* created, or deleted by delete_job) raises ValueError 'Job not found'.
C16_GetUnknownJobRaises ==
    (/\ Returned("get_job")
     /\ jobs_file.kind = "json"
     /\ PositionsOf(jobs_file.jobs, job_call.job_id) = {})
        => job_call.raised = "ValueError"

\* this step is a call of the method on the jobs file as it is
Calls(op) ==
    job_pc = "idle" /\ job_pc' = "returned" /\ job_call'.op = op

\* C18: when the jobs file holds invalid JSON, ensure_jobs_file recreates
\* it, and load_jobs terminates and returns a structure whose job list is
\* empty.
C18_CorruptionRecovery ==
    [][/\ (Calls("ensure_jobs_file") /\ jobs_file.kind = "invalid") =>
              jobs_file' = JsonFile(<<>>, jobs_file'.metadata)
       /\ (Calls("load_jobs") /\ jobs_file.kind = "invalid") =>
              /\ job_call'.raised = ""
              /\ job_call'.value.jobs = <<>>]_vars

\* the datetime that a str(datetime) of the file denotes
StoredDatetime(text) ==
    TheOne(DatetimeFromStr(text))

\* the fields of a datetime in the order that compares them
DatetimeKey(dt) ==
    <<dt.year, dt.month, dt.day, dt.hour, dt.minute, dt.second, dt.microsecond>>

\* datetime < datetime
Earlier(a, b) ==
    \E key_a \in {DatetimeKey(a)}, key_b \in {DatetimeKey(b)} :
        \E i \in 1..7 :
            /\ key_a[i] < key_b[i]
            /\ \A j \in 1..(i - 1) : key_a[j] = key_b[j]

\* the jobs other than the one at the position are as they were
OthersUnchanged(before, after, position) ==
    /\ Len(after) = Len(before)
    /\ \A i \in 1..Len(before) : i # position => after[i] = before[i]

\* the field has the value the update supplies, or the value it had
SuppliedOrUnchanged(before, after, updates, field) ==
    after[field] = IF field \in DOMAIN updates
                   THEN JsonOfUpdates(updates)[field]
                   ELSE before[field]

\* a step of update_job on a readable store: the job list before and after it
UpdateSteps ==
    IF Calls("update_job") /\ jobs_file.kind = "json"
    THEN {[job_id |-> job_call'.job_id, updates |-> job_call'.updates,
           before |-> jobs_file.jobs, after |-> jobs_file'.jobs]}
    ELSE {}

\* the job of an update step as it was and as it is, and its position
UpdatedJobs(step) ==
    {[position |-> i, old |-> step.before[i], new |-> step.after[i]] :
        i \in {FirstPosition(step.before, step.job_id)}}

FirstActivation(job_data, updates) ==
    /\ "status" \in DOMAIN updates
    /\ updates["status"] = "ACTIVE"
    /\ job_data.posted_date = {}

AllThreadsDone ==
    \A t \in Threads : thread_pc[t] = "done"

\* C17: when the threads call create_job concurrently on the same
\* JobService, every call completes without an error and the returned job
\* ids are pairwise distinct.
C17_ConcurrentCreateIsSafe ==
    AllThreadsDone =>
        /\ \A t \in Threads : thread_result[t].raised = ""
        /\ \A t, u \in Threads :
               t # u => thread_result[t].job_id # thread_result[u].job_id

\* the ids of the jobs that the file holds, none if it is not JSON
StoredIds ==
    IF IsJson(jobs_bytes)
    THEN {TheOne(jobs_bytes.text)[i] : i \in 1..Len(TheOne(jobs_bytes.text))}
    ELSE {}

\* C30: after the concurrent create_job calls have all returned, the jobs
\* file contains every created job: each returned id is in the store,
\* whatever the interleaving of the calls' load_jobs and save_jobs steps.
C30_NoLostUpdate ==
    (AllThreadsDone /\ \A t \in Threads : thread_result[t].raised = "") =>
        \A t \in Threads : thread_result[t].job_id \in StoredIds

SectionKinds ==
    {"experience", "education", "skills"}

\* the positions of the lines of a span
LinesOf(span) ==
    UNION {span_of.start..(span_of.end - 1) : span_of \in span}

\* C22: the experience, education and skills spans extracted from one
\* document are pairwise non-overlapping: no line of the document belongs to
\* the spans of two different kinds.
C22_SpansDoNotOverlap ==
    section_pc = "extracted" =>
        \A kind, other \in SectionKinds :
            kind # other => LinesOf(spans[kind]) \cap LinesOf(spans[other]) = {}

\* the keywords of a kind of section
KeywordsOf(kind) ==
    IF kind = "experience" THEN exp_section_keywords
    ELSE IF kind = "education" THEN edu_section_keywords
    ELSE skills_section_keywords

\* re.match(r'^\s*[A-Z][a-zA-Z\s]*:', line)
IsTitleLine(line) ==
    \E colon \in 1..Len(line), first \in 1..Len(line) :
        /\ first < colon
        /\ line[colon] = ":"
        /\ \A i \in 1..(first - 1) : IsSpace(line[i])
        /\ line[first] \in SeqToSet(UpperChars)
        /\ \A i \in (first + 1)..(colon - 1) : IsLetter(line[i]) \/ IsSpace(line[i])

\* C23: a line starts a section span only if it contains one of the
\* section's keywords and is short (at most 5 words) or matches a 'Title:'
\* pattern; a long line of content that contains a keyword starts no span.
C23_OnlyHeadingsStartSpans ==
    section_pc = "extracted" =>
        \A kind \in SectionKinds :
            \A span \in spans[kind] :
                /\ HasKeyword(section_lines[span.start], KeywordsOf(kind))
                /\ \/ WordCount(Strip(Lower(section_lines[span.start]))) <= 5
                   \/ IsTitleLine(section_lines[span.start])

\* C21: when the text has no experience heading, the scan of the whole text
\* returns at most 5 experience entries.
C21_FallbackReturnsAtMostFive ==
    fallback_pc = "scanned" => Len(fallback_experience) <= 5

SkillBuckets ==
    {"technical", "soft", "tools", "frameworks", "languages"}

\* the categories of skills_database that list a term
CategoriesOf(term) ==
    {skill_categories[c] : c \in
        {c \in 1..Len(skill_categories) :
            term \in SeqToSet(skills_database[skill_categories[c]])}}

\* the bucket that the specification gives to a category
SpecifiedBucket(category) ==
    IF category = "programming" THEN "languages"
    ELSE IF category \in {"web_frameworks", "data_science"} THEN "frameworks"
    ELSE IF category \in {"databases", "cloud", "devops"} THEN "tools"
    ELSE "technical"

\* C24: each term found by _extract_skills is in exactly one of the five
\* buckets, the one of its taxonomy category: programming -> languages;
\* web_frameworks and data_science -> frameworks; databases, cloud and
\* devops -> tools; every other category -> technical; and no term is twice
\* in one bucket.
C24_OneBucketPerCategory ==
    skills_pc = "extracted" =>
        \A bucket \in SkillBuckets :
            /\ \A i, j \in 1..Len(found_skills[bucket]) :
                   found_skills[bucket][i] = found_skills[bucket][j] => i = j
            /\ \A term \in SeqToSet(found_skills[bucket]) :
                   /\ \A other \in SkillBuckets \ {bucket} :
                          term \notin SeqToSet(found_skills[other])
                   /\ \A category \in CategoriesOf(term) :
                          SpecifiedBucket(category) = bucket

\* the term stands in the text with no letter or digit next to it
IsWholeToken(term, text) ==
    \E i \in 0..(Len(text) - Len(term)) :
        /\ SubSeq(text, i + 1, i + Len(term)) = term
        /\ i = 0 \/ ~IsWordChar(text[i])
        /\ i + Len(term) = Len(text) \/ ~IsWordChar(text[i + Len(term) + 1])

\* the texts that _extract_skills scans: the lines and the noun chunks
ScannedTexts ==
    SeqToSet(skills_lines) \cup UNION {SeqToSet(noun_chunks) : noun_chunks \in skills_doc}

\* C25: a taxonomy term is reported as a skill only when it stands in the
\* scanned text as a whole token: a term that occurs only inside a longer
\* word ('java' in 'javascript', 'r' or 'go' in another word) is not
\* reported.
C25_OnlyWholeTokensReported ==
    skills_pc = "extracted" =>
        \A bucket \in SkillBuckets : \A term \in SeqToSet(found_skills[bucket]) :
            \E text \in ScannedTexts : IsWholeToken(term, Lower(text))

\* C26: in every state of the comparison store a COMPLETED comparison has
\* an ats_score and a completed_at and no error_message, a FAILED one has
\* an error_message and no ats_score, and a PENDING or PROCESSING one has
\* no ats_score, no completed_at and no error_message.
C26_StatusFieldsConsistent ==
    \A id \in DOMAIN _comparison_cache :
        \E comparison \in {_comparison_cache[id]} :
            /\ comparison.status = v_completed =>
                   /\ comparison.ats_score # {}
                   /\ comparison.completed_at # {}
                   /\ comparison.error_message = {}
            /\ comparison.status = v_failed =>
                   /\ comparison.error_message # {}
                   /\ comparison.ats_score = {}
            /\ comparison.status \in {v_pending, v_processing} =>
                   /\ comparison.ats_score = {}
                   /\ comparison.completed_at = {}
                   /\ comparison.error_message = {}

\* the comparison waits for its run or is in it
Unsettled(id) ==
    /\ id \in DOMAIN _comparison_cache
    /\ _comparison_cache[id].status \in {v_pending, v_processing}

\* the comparison has a result or is deleted
SettledOrDeleted(id) ==
    \/ id \notin DOMAIN _comparison_cache
    \/ _comparison_cache[id].status \in {v_completed, v_failed}

\* the step of a processing run takes the status of its comparison from
\* PENDING to PROCESSING, or from PROCESSING to COMPLETED or FAILED
RunStepInOrder ==
    comparison_running' # comparison_running =>
        \A id \in comparison_running \cup comparison_running' :
            \E from \in {_comparison_cache[id].status},
               to \in {_comparison_cache'[id].status} :
                \/ from = v_pending /\ to = v_processing
                \/ from = v_processing /\ to \in {v_completed, v_failed}

\* C27: every comparison that is created or reset by reprocess and not
\* deleted reaches COMPLETED or FAILED, given that the tasks are scheduled,
\* and within a processing run the status only moves from PENDING to
\* PROCESSING to COMPLETED or FAILED.
C27_EveryComparisonSettlesInOrder ==
    /\ \A id \in ComparisonIds : Unsettled(id) ~> SettledOrDeleted(id)
    /\ [][RunStepInOrder]_vars

\* a task that finds no comparison writes nothing
StaleTaskWritesNothing ==
    stale_tasks' # stale_tasks =>
        /\ _comparison_cache' = _comparison_cache
        /\ comparisons_file' = comparisons_file

\* C28: once delete_comparison(id) has returned True the id is never in
\* the store again, also when a task made for it before by
\* create_comparison or by reprocess runs afterwards; that task writes
\* nothing.
C28_DeletedIdNeverReappears ==
    /\ [](\A id \in deleted_ids : id \notin DOMAIN _comparison_cache)
    /\ [][StaleTaskWritesNothing]_vars

\* a task has run after delete_comparison returned True for its id, and
\* found no comparison
C28_Witness ==
    \E id \in deleted_ids : id \in stale_tasks /\ id \notin DOMAIN _comparison_cache

====
